---------------------------- MODULE Spec2Model ----------------------------
(***************************************************************************)
(* Conflict detection and settings merge of the Danizee Claude Suite        *)
(* installer (src/src/utils/conflicts.js, src/src/utils/settings.js,        *)
(* src/src/installer.js and the three plugins under src/src/plugins).       *)
(*                                                                          *)
(* A JavaScript string is modelled as a sequence of UTF-16 code units, each *)
(* code unit an atom written as a one-word TLA+ string.  The                *)
(* specifications share the variables:                                      *)
(*   SpecLev    levenshteinDistance on every triple of bounded strings      *)
(*   Spec       areSimilar on every pair of bounded mixed-case names        *)
(*   SpecScan   the pair loops of detectDuplicateCommands on a file list    *)
(*   SpecMerge  deepMerge on every pair of bounded configuration trees,     *)
(*              laid out as objects in a heap                               *)
(*   SpecSettings  mergeSettings and removeSettings on a .claude directory  *)
(*   SpecDetect    each of the four checks of conflicts.js on a directory   *)
(*   SpecChecks    runConflictChecks, its four checks running together      *)
(*   SpecInstall   install() one awaited call at a time, check() and        *)
(*                 uninstall() on a project directory                       *)
(*   SpecMergeAgain  deepMerge applied to its own result once more          *)
(***************************************************************************)
EXTENDS Integers, Sequences, FiniteSets, TLC

VARIABLES
  a, b, c,        \* string arguments of levenshteinDistance / areSimilar
  threshold,      \* third argument of areSimilar, a rational <<num, den>>
  pc,             \* position of the caller
  dist,           \* values returned by levenshteinDistance
  sim,            \* values returned by areSimilar
  subdir,         \* the command subdirectory being scanned
  files,          \* result of fs.readdir(subdirPath)
  i, j,           \* loop counters of detectDuplicateCommands
  conflicts,      \* the conflicts array
  tested,         \* history: the index pairs handed to areSimilar, in order
  heap,           \* the objects alive: address -> (key -> value)
  heap0,          \* history: the heap when deepMerge was called
  base, overlay,  \* the arguments of deepMerge (target, source)
  ret,            \* the value deepMerge returned
  again,          \* the value deepMerge returned when called on ret again
  disk,           \* the target project: .claude, WORKFLOW-SHORTCUTS.md, docs
  disk0,          \* history: the directory when the last call was made
  clock,          \* the time new Date() reads
  call,           \* the last call made, with its option
  out,            \* what the last call returned, or that it threw
  task,           \* the four checks of runConflictChecks while they run,
                  \* or the position of install() between its awaits
  order,          \* history: the checks in the order they completed
  wrote           \* history: the paths the last call created or wrote

vars ==
  <<a, b, c, threshold, pc, dist, sim, subdir, files, i, j, conflicts, tested,
    heap, heap0, base, overlay, ret, again, disk, disk0, clock, call, out,
    task, order, wrote>>

-----------------------------------------------------------------------------
(* Bounds *)

MaxLen == 3        \* longest argument of levenshteinDistance in SpecLev
MaxName == 3       \* longest argument of areSimilar in Spec
MaxFiles == 3      \* most entries of one command directory in SpecScan
MaxNodes == 5      \* most keys, at all depths, of base and overlay together

LevAlphabet == {"a", "b"}
\* "Idot" is U+0130 (capital I with dot above); its lower case is the two
\* code units "i" (U+0069) and "dot" (U+0307, combining dot above).
SimAlphabet == {"a", "A", "Idot"}

Strings(S, n) == UNION {[1..k -> S] : k \in 0..n}

Max(x, y) == IF x >= y THEN x ELSE y
Min(x, y) == IF x <= y THEN x ELSE y

None == <<>>

scanVars == <<subdir, files, i, j, conflicts, tested>>
stringVars == <<a, b, c, threshold, dist, sim>>
mergeVars == <<heap, heap0, base, overlay, ret, again>>
fileVars == <<disk, disk0, clock, call, out, wrote>>
taskVars == <<task, order>>

-----------------------------------------------------------------------------
(* levenshteinDistance, conflicts.js 13-39 *)

\* Math.min of three numbers (conflicts.js 29-33)
Min3NoUp(x, y, z) == Min(x, y)
Min3(x, y, z) == Min(x, Min(y, z))

\* One cell of the inner loop body (conflicts.js 26-34): `same` is
\* b.charAt(i - 1) === a.charAt(j - 1), diag/left/up are matrix[i-1][j-1],
\* matrix[i][j-1] and matrix[i-1][j].
cellAlwaysEdit(same, diag, left, up) == Min3(diag + 1, left + 1, up + 1)
cellFreeUp(same, diag, left, up) ==
  IF same THEN diag ELSE Min3(diag + 1, left + 1, up)
cell(same, diag, left, up) ==
  IF same THEN diag ELSE Min3(diag + 1, left + 1, up + 1)

\* matrix[row][0 .. a.length], as a sequence indexed from 1 (column + 1).
\* Row 0 is filled by the loop of lines 20-22; matrix[row][0] = row by the
\* loop of lines 16-18; the other cells by lines 24-36.
RECURSIVE matrixRow(_, _, _)
matrixRow(s, t, row) ==
  IF row = 0
    THEN [col \in 1..(Len(s) + 1) |-> col - 1]
    ELSE LET prev == matrixRow(s, t, row - 1)
             cur[col \in 1..(Len(s) + 1)] ==
               IF col = 1 THEN row
               ELSE cell(t[row] = s[col - 1],
                         prev[col - 1], cur[col - 1], prev[col])
         IN  \* the row above is complete before this one is filled, and the
             \* row is a sequence of its cells, each computed once
             IF Len(prev) = 0 THEN prev
             ELSE SubSeq([col \in 1..(Len(s) + 1) |-> cur[col]], 1, Len(s) + 1)

\* return matrix[b.length][a.length] (conflicts.js 38)
levenshteinDistance(s, t) == matrixRow(s, t, Len(t))[Len(s) + 1]

-----------------------------------------------------------------------------
(* areSimilar, conflicts.js 44-48 *)

\* String.prototype.toLowerCase, code unit by code unit.  Lower-casing
\* U+0130 yields two code units, so the result can be longer than the input.
lowerOf(ch) ==
  CASE ch = "A" -> <<"a">>
    [] ch = "B" -> <<"b">>
    [] ch = "Idot" -> <<"i", "dot">>
    [] OTHER -> <<ch>>

RECURSIVE toLowerCase(_)
toLowerCase(s) ==
  IF s = <<>> THEN <<>> ELSE lowerOf(Head(s)) \o toLowerCase(Tail(s))

\* The default value of the threshold parameter, 0.3 (conflicts.js 44).
ThresholdNum == 3
ThresholdDen == 10
DefaultThreshold == <<ThresholdNum, ThresholdDen>>

\* distance / maxLength <= threshold in IEEE-754 doubles (conflicts.js 47).
\* 0 / 0 is NaN and every comparison with NaN is false; n / 0 for n > 0 is
\* +Infinity, which no finite threshold reaches.  For maxLength > 0 the
\* quotient is the correctly rounded value of the exact ratio, and on the
\* small integers of this model rounding never reorders it against the
\* threshold, so the comparison is the exact one, cross-multiplied.
ratioRoundedUp(distance, maxLength, t) ==
  IF maxLength = 0 THEN FALSE
  ELSE distance * t[2] < t[1] * maxLength + t[2]
ratioAtMost(distance, maxLength, t) ==
  IF maxLength = 0 THEN FALSE
  ELSE distance * t[2] <= t[1] * maxLength

areSimilarFirstLength(x, y, t) ==
  ratioAtMost(levenshteinDistance(toLowerCase(x), toLowerCase(y)), Len(x), t)
areSimilar(x, y, t) ==
  LET distance == levenshteinDistance(toLowerCase(x), toLowerCase(y))
      maxLength == Max(Len(x), Len(y))
  IN  ratioAtMost(distance, maxLength, t)

-----------------------------------------------------------------------------
(* The pair loops of detectDuplicateCommands, conflicts.js 65-81 *)

mdSuffix == <<".", "m", "d">>

\* files[i].replace('.md', ''): the first occurrence of ".md" is removed,
\* wherever it stands; a name without one is returned as it is.
replaceMd(s) ==
  LET hits == {k \in 1..(Len(s) - 2) : SubSeq(s, k, k + 2) = mdSuffix}
  IN  IF hits = {} THEN s
      ELSE LET k == CHOOSE h \in hits : \A g \in hits : h <= g
           IN  SubSeq(s, 1, k - 1) \o SubSeq(s, k + 3, Len(s))

\* let j = i + 1 (conflicts.js 68)
firstInnerSame(x) == x
firstInner(x) == x + 1

\* conflicts.push(record) (conflicts.js 73)
push(arr, rec) == Append(arr, rec)

\* The loop heads of lines 67-68 from outer index x on: the first outer
\* index whose inner loop has an iteration, or the end of both loops.
RECURSIVE outerFrom(_, _)
outerFrom(x, n) ==
  IF x >= n THEN [done |-> TRUE, i |-> x, j |-> x]
  ELSE IF firstInner(x) < n THEN [done |-> FALSE, i |-> x, j |-> firstInner(x)]
  ELSE outerFrom(x + 1, n)

\* j++, and i++ when the inner loop is over
afterPair(x, y, n) ==
  IF y + 1 < n THEN [done |-> FALSE, i |-> x, j |-> y + 1]
  ELSE outerFrom(x + 1, n)

similarCommands(dir, fileA, fileB, nameA, nameB) ==
  [type |-> "similar_commands",
   directory |-> dir,
   files |-> <<fileA, fileB>>,
   message |-> <<nameA, nameB>>]

\* const files = await fs.readdir(subdirPath), then the loops are entered
ScanEnter ==
  /\ pc = "readdir"
  /\ LET p == outerFrom(0, Len(files))
     IN  /\ i' = p.i
         /\ j' = p.j
         /\ pc' = IF p.done THEN "done" ELSE "pair"
  /\ UNCHANGED <<stringVars, mergeVars, subdir, files, conflicts, tested>>
  /\ UNCHANGED <<fileVars, taskVars>>

\* One iteration of the inner loop body (lines 69-79) and the loop updates.
\* Arrays are indexed from 0 in the code and from 1 here.
ScanPair ==
  /\ pc = "pair"
  /\ LET nameA == replaceMd(files[i + 1])
         nameB == replaceMd(files[j + 1])
         p == afterPair(i, j, Len(files))
     IN  /\ tested' = Append(tested, <<i, j>>)
         /\ conflicts' =
              IF areSimilar(nameA, nameB, DefaultThreshold)
                THEN push(conflicts,
                          similarCommands(subdir, files[i + 1], files[j + 1],
                                          nameA, nameB))
                ELSE conflicts
         /\ i' = p.i
         /\ j' = p.j
         /\ pc' = IF p.done THEN "done" ELSE "pair"
  /\ UNCHANGED <<stringVars, mergeVars, subdir, files, fileVars, taskVars>>

-----------------------------------------------------------------------------
(* JavaScript values and the heap *)

\* A value is a primitive, an array (never written to by deepMerge, so held
\* by value) or the address of a plain object in the heap.
Null == [t |-> "null", v |-> 0]
Undefined == [t |-> "undefined", v |-> 0]
Num(n) == [t |-> "number", v |-> n]
Bool(x) == [t |-> "boolean", v |-> x]
Str(s) == [t |-> "string", v |-> s]
Arr(xs) == [t |-> "array", v |-> xs]
Obj(p) == [t |-> "object", v |-> p]

EmptyObject == <<>>

\* obj[key] = val on a plain object
setProp(obj, key, val) ==
  [k \in DOMAIN obj \cup {key} |-> IF k = key THEN val ELSE obj[k]]

\* The property name of an array index or string position.
Digits == <<"0", "1", "2", "3", "4", "5", "6", "7", "8", "9">>
IndexKey(n) == Digits[n + 1]

\* The own enumerable properties of a value, as the spread { ...value } and
\* value[key] see them: the characters of a string and the elements of an
\* array under their index, nothing for a number.
ownProps(h, val) ==
  CASE val.t = "object" -> h[val.v]
    [] val.t = "string" ->
         [k \in {IndexKey(n) : n \in 0..(Len(val.v) - 1)} |->
            Str(<<val.v[(CHOOSE n \in 0..(Len(val.v) - 1) : IndexKey(n) = k) + 1]>>)]
    [] val.t = "array" ->
         [k \in {IndexKey(n) : n \in 0..(Len(val.v) - 1)} |->
            val.v[(CHOOSE n \in 0..(Len(val.v) - 1) : IndexKey(n) = k) + 1]]
    [] OTHER -> EmptyObject

\* value[key]
getProp(h, val, key) ==
  IF key \in DOMAIN ownProps(h, val) THEN ownProps(h, val)[key]
  ELSE IF key = "length" /\ val.t \in {"string", "array"} THEN Num(Len(val.v))
  ELSE Undefined

\* ToBoolean
truthy(val) ==
  CASE val.t \in {"null", "undefined"} -> FALSE
    [] val.t = "number" -> val.v # 0
    [] val.t = "string" -> val.v # <<>>
    [] val.t = "boolean" -> val.v
    [] OTHER -> TRUE

\* typeof val === 'object': null, arrays and plain objects
typeofObject(val) == val.t \in {"null", "array", "object"}

\* An object literal {}: a new object at the next free address.
newObject(h) == [heap |-> Append(h, EmptyObject), val |-> Obj(Len(h) + 1)]

-----------------------------------------------------------------------------
(* deepMerge, settings.js 12-24 *)

\* const result = { ...target } (settings.js 13): a new object holding the
\* own enumerable properties of target, nested objects shared by address.
resultAliasesTarget(h, target) ==
  IF target.t = "object" THEN [heap |-> h, val |-> target]
  ELSE [heap |-> Append(h, ownProps(h, target)), val |-> Obj(Len(h) + 1)]
resultStartsEmpty(h, target) == newObject(h)
spreadTarget(h, target) ==
  [heap |-> Append(h, ownProps(h, target)), val |-> Obj(Len(h) + 1)]

\* source[key] && typeof source[key] === 'object' && !Array.isArray(source[key])
\* (settings.js 16)
isNestedTree(sv) == truthy(sv) /\ typeofObject(sv) /\ sv.t # "array"

\* result[key] = source[key] (settings.js 19): the value of source takes the
\* place of what target holds, an array as a whole.
concatenated(tv, sv) ==
  IF tv.t = "array" /\ sv.t = "array" THEN Arr(tv.v \o sv.v) ELSE sv
replaced(tv, sv) == sv

RECURSIVE deepMerge(_, _, _)
RECURSIVE mergeKeys(_, _, _, _, _)

\* The loop of settings.js 15-21 over the keys of source not yet visited.
\* Each iteration writes one key of result and reads only that key of
\* target and source, so the order of Object.keys(source) decides nothing
\* but the addresses of the objects created.
mergeKeys(h, result, target, source, keys) ==
  IF keys = {} THEN h
  ELSE
    LET key == CHOOSE k \in keys : TRUE
        sv == h[source.v][key]
    IN  IF isNestedTree(sv)
          THEN \* result[key] = deepMerge(target[key] || {}, source[key])
               LET tv == getProp(h, target, key)
                   arg == IF truthy(tv) THEN [heap |-> h, val |-> tv]
                          ELSE newObject(h)
                   r == deepMerge(arg.heap, arg.val, sv)
               IN  mergeKeys([r.heap EXCEPT ![result.v] = setProp(@, key, r.val)],
                             result, target, source, keys \ {key})
          ELSE \* result[key] = source[key]
               mergeKeys([h EXCEPT ![result.v] =
                            setProp(@, key,
                                    replaced(getProp(h, target, key), sv))],
                         result, target, source, keys \ {key})

\* Returns the heap after the call and the value returned.
deepMerge(h, target, source) ==
  LET r == spreadTarget(h, target)
  IN  [heap |-> mergeKeys(r.heap, r.val, target, source, DOMAIN h[source.v]),
       val |-> r.val]

-----------------------------------------------------------------------------
(* The .claude directory of the target project *)

\* A file that JSON.parse reads holds a configuration tree: a mapping from
\* keys to primitives, arrays and trees.  A file is absent, holds text that
\* JSON.parse rejects, or holds the text of a tree.
EmptyTree == [t |-> "tree", v |-> EmptyObject]
NoFile == [kind |-> "absent", tree |-> EmptyTree]
Garbage == [kind |-> "invalid", tree |-> EmptyTree]
JsonFile(tr) == [kind |-> "json", tree |-> tr]

\* commands/ is absent or a sequence of entries in the order fs.readdir
\* lists them; an entry is a directory with its own listing, a file, or a
\* link to nothing, on which fs.stat throws.
NoCommands == [exists |-> FALSE, entries |-> <<>>]
Commands(es) == [exists |-> TRUE, entries |-> es]
Entry(name, kind, listing) == [name |-> name, kind |-> kind, files |-> listing]

\* helpers/ is absent or a listing.  Beside .claude the project directory
\* holds WORKFLOW-SHORTCUTS.md or not, and the subdirectories of
\* docs/solutions with their .gitkeep files.
NoHelpers == [exists |-> FALSE, files |-> <<>>]
NoDocs == [dirs |-> {}, gitkeep |-> {}]

NoDirectory ==
  [claudeDir |-> FALSE, settings |-> NoFile, local |-> NoFile,
   commands |-> NoCommands, helpers |-> NoHelpers, shortcuts |-> FALSE,
   docs |-> NoDocs]

-----------------------------------------------------------------------------
(* Callers of the two pure functions *)

\* The names of spec.md's examples, as code-unit sequences.
plan == <<"p", "l", "a", "n">>
plann == <<"p", "l", "a", "n", "n">>
review == <<"r", "e", "v", "i", "e", "w">>

Names == Strings(SimAlphabet, MaxName) \cup {plan, plann, review}

\* Thresholds handed to areSimilar: 0, the default 0.3, 1/2 and 1.
Thresholds == {<<0, 1>>, DefaultThreshold, <<1, 2>>, <<1, 1>>}

ScanIdle ==
  /\ subdir = ""
  /\ files = <<>>
  /\ i = 0
  /\ j = 0
  /\ conflicts = <<>>
  /\ tested = <<>>

MergeIdle ==
  /\ heap = <<>>
  /\ heap0 = <<>>
  /\ base = None
  /\ overlay = None
  /\ ret = None
  /\ again = None

FilesIdle ==
  /\ disk = NoDirectory
  /\ disk0 = NoDirectory
  /\ clock = 0
  /\ call = None
  /\ out = None
  /\ task = None
  /\ order = <<>>
  /\ wrote = <<>>

\* levenshteinDistance applied to the arguments in each order the
\* properties of section 8 of spec.md relate.
CallLevenshtein ==
  /\ pc = "call"
  /\ dist = None
  /\ dist' = [ab |-> levenshteinDistance(a, b),
              ba |-> levenshteinDistance(b, a),
              bc |-> levenshteinDistance(b, c),
              ac |-> levenshteinDistance(a, c),
              aa |-> levenshteinDistance(a, a)]
  /\ UNCHANGED <<a, b, c, threshold, pc, sim, scanVars, mergeVars>>
  /\ UNCHANGED <<fileVars, taskVars>>

\* areSimilar applied to the arguments, to the arguments swapped, to one
\* argument twice and to the lower-cased arguments.
CallAreSimilar ==
  /\ pc = "call"
  /\ sim = None
  /\ sim' = [ab |-> areSimilar(a, b, threshold),
             ba |-> areSimilar(b, a, threshold),
             aa |-> areSimilar(a, a, threshold),
             lower |-> areSimilar(toLowerCase(a), toLowerCase(b), threshold)]
  /\ UNCHANGED <<a, b, c, threshold, pc, dist, scanVars, mergeVars>>
  /\ UNCHANGED <<fileVars, taskVars>>

InitLev ==
  /\ a \in Strings(LevAlphabet, MaxLen)
  /\ b \in Strings(LevAlphabet, MaxLen)
  /\ c \in Strings(LevAlphabet, MaxLen)
  /\ threshold = DefaultThreshold
  /\ pc = "call"
  /\ dist = None
  /\ sim = None
  /\ ScanIdle
  /\ MergeIdle
  /\ FilesIdle

NextLev == CallLevenshtein

SpecLev == InitLev /\ [][NextLev]_vars

Init ==
  /\ a \in Names
  /\ b \in Names
  /\ c = <<>>
  /\ threshold \in Thresholds
  /\ pc = "call"
  /\ dist = None
  /\ sim = None
  /\ ScanIdle
  /\ MergeIdle
  /\ FilesIdle

Next == CallLevenshtein \/ CallAreSimilar

Spec == Init /\ [][Next]_vars

-----------------------------------------------------------------------------
(* Properties of levenshteinDistance *)

\* The strings one insertion, deletion or substitution away from s.
OneEdit(s, S) ==
  {SubSeq(s, 1, k - 1) \o SubSeq(s, k + 1, Len(s)) : k \in 1..Len(s)}
  \cup {[s EXCEPT ![k] = ch] : k \in 1..Len(s), ch \in S}
  \cup {SubSeq(s, 1, k) \o <<ch>> \o SubSeq(s, k + 1, Len(s)) :
          k \in 0..Len(s), ch \in S}

\* The least number of edits leading from a string of `reached` to
\* `target`, through strings of at most `cap` code units, counted from k.
RECURSIVE EditSteps(_, _, _, _, _)
EditSteps(reached, target, S, cap, k) ==
  IF target \in reached THEN k
  ELSE EditSteps(reached \cup
                   {s \in UNION {OneEdit(r, S) : r \in reached} : Len(s) <= cap},
                 target, S, cap, k + 1)

MinEdits(s, t) == EditSteps({s}, t, LevAlphabet, Max(Len(s), Len(t)) + 1, 0)

\* C1: levenshteinDistance(a, b) is the least number of single-character
\* insertions, deletions and substitutions turning a into b, and
\* levenshteinDistance("", s) is the length of s.
C1_EditDistance ==
  dist # None =>
    /\ dist.ab = MinEdits(a, b)
    /\ a = <<>> => dist.ab = Len(b)

C1_Witness ==
  /\ dist # None
  /\ Len(a) = 2
  /\ Len(b) = 3
  /\ dist.ab = 3

\* C2: levenshteinDistance(a, b) = levenshteinDistance(b, a).
C2_Symmetric == dist # None => dist.ab = dist.ba

C2_Witness ==
  /\ dist # None
  /\ Len(a) < Len(b)
  /\ dist.ab = 2
  /\ dist.ba = 2

\* C3: levenshteinDistance(a, c) is at most levenshteinDistance(a, b) plus
\* levenshteinDistance(b, c).
C3_Triangle == dist # None => dist.ac <= dist.ab + dist.bc

C3_Witness ==
  /\ dist # None
  /\ dist.ab > 0
  /\ dist.bc > 0
  /\ dist.ac = dist.ab + dist.bc
  /\ Len(a) # Len(c)

-----------------------------------------------------------------------------
(* Properties of areSimilar *)

\* C4: levenshteinDistance(a, a) is 0 for every string a, and areSimilar(a, a)
\* is true for every nonempty a at every threshold >= 0.
C4_Reflexive ==
  /\ dist # None => dist.aa = 0
  /\ (sim # None /\ a # <<>>) => sim.aa

C4_Witness ==
  /\ dist # None
  /\ sim # None
  /\ Len(a) = MaxName
  /\ "Idot" \in {a[k] : k \in 1..Len(a)}
  /\ threshold = <<0, 1>>
  /\ sim.aa

\* C5: areSimilar(a, b, threshold) is true exactly when the distance of the
\* lower-cased arguments over the longer argument's length is at most the
\* threshold, so that the verdict is the same for the lower-cased arguments;
\* "plan" and "plann" are similar and "plan" and "review" are not.
C5_RatioCaseBlind ==
  sim # None =>
    /\ Max(Len(a), Len(b)) > 0 =>
         (sim.ab <=>
            levenshteinDistance(toLowerCase(a), toLowerCase(b)) * threshold[2]
              <= threshold[1] * Max(Len(a), Len(b)))
    /\ sim.ab = sim.lower
    /\ (a = plan /\ b = plann /\ threshold = DefaultThreshold) => sim.ab
    /\ (a = plan /\ b = review /\ threshold = DefaultThreshold) => ~sim.ab

\* C6: areSimilar(a, b, t) = areSimilar(b, a, t) at every threshold.
C6_SimilarSymmetric == sim # None => sim.ab = sim.ba

C6_Witness ==
  /\ sim # None
  /\ Len(a) < Len(b)
  /\ toLowerCase(a) # toLowerCase(b)
  /\ threshold = DefaultThreshold
  /\ sim.ab
  /\ sim.ba

\* C7: areSimilar("", "") is true.
C7_BothEmpty == (sim # None /\ a = <<>> /\ b = <<>>) => sim.ab

-----------------------------------------------------------------------------
(* The scan of one command directory *)

planMd == plan \o mdSuffix
plannMd == plann \o mdSuffix
reviewMd == review \o mdSuffix

\* Directory entries: the examples of spec.md with and without extension.
FileNames == {plan, plann, review, planMd, plannMd, reviewMd}

\* A directory listing holds each entry once, in the order the OS gives.
Listings ==
  {f \in UNION {[1..n -> FileNames] : n \in 0..MaxFiles} :
     \A x, y \in DOMAIN f : x # y => f[x] # f[y]}

InitScan ==
  /\ a = <<>>
  /\ b = <<>>
  /\ c = <<>>
  /\ threshold = DefaultThreshold
  /\ dist = None
  /\ sim = None
  /\ pc = "readdir"
  /\ subdir \in {"workflows", "analysis"}
  /\ FilesIdle
  /\ files \in Listings
  /\ i = 0
  /\ j = 0
  /\ conflicts = <<>>
  /\ tested = <<>>
  /\ MergeIdle

NextScan == ScanEnter \/ ScanPair

SpecScan == InitScan /\ [][NextScan]_vars

\* C8: the scan tests every pair of positions i < j exactly once, with no
\* early exit, in ascending order of i and then of j; the flagged pairs
\* appear in the output in that order; for ["plan", "plann", "review"]
\* exactly the pair ("plan", "plann") is flagged.
PairBefore(p, q) == p[1] < q[1] \/ (p[1] = q[1] /\ p[2] < q[2])

FlaggedPair(p) ==
  areSimilar(replaceMd(files[p[1] + 1]), replaceMd(files[p[2] + 1]),
             DefaultThreshold)

C8_PairScan ==
  /\ \A k, l \in DOMAIN tested : k < l => PairBefore(tested[k], tested[l])
  /\ \A k \in DOMAIN tested :
       0 <= tested[k][1] /\ tested[k][1] < tested[k][2]
         /\ tested[k][2] < Len(files)
  /\ LET flagged == SelectSeq(tested, FlaggedPair)
     IN  /\ Len(conflicts) = Len(flagged)
         /\ \A k \in DOMAIN flagged :
              conflicts[k].files =
                <<files[flagged[k][1] + 1], files[flagged[k][2] + 1]>>
  /\ pc = "done" =>
       /\ \A x, y \in 0..(Len(files) - 1) :
            x < y => Cardinality({k \in DOMAIN tested : tested[k] = <<x, y>>}) = 1
       /\ files = <<plan, plann, review>> =>
            /\ Len(conflicts) = 1
            /\ conflicts[1].files = <<plan, plann>>

C8_Witness ==
  /\ pc = "done"
  /\ Len(files) = 3
  /\ Len(tested) = 3
  /\ Len(conflicts) = 1
  /\ conflicts[1].files = <<files[2], files[3]>>

-----------------------------------------------------------------------------
(* deepMerge on bounded configuration trees *)

\* A configuration tree, as JSON.parse or an object literal builds it: a
\* mapping from keys to primitives, arrays and nested trees.
Tree(f) == [t |-> "tree", v |-> f]

Keys == {"a", "b"}

\* Values of the existing settings: a falsy one, a number, a string and an
\* array; values of the defaults laid over them.
BaseLeaves == {Null, Num(1), Str(<<"x">>), Arr(<<Num(1)>>)}
OverlayLeaves == {Null, Num(2), Arr(<<Num(2)>>)}

RECURSIVE TreeSize(_)
RECURSIVE SizeOver(_, _)
SizeOver(f, keys) ==
  IF keys = {} THEN 0
  ELSE LET k == CHOOSE x \in keys : TRUE
       IN  1 + TreeSize(f[k]) + SizeOver(f, keys \ {k})
\* The number of keys of a tree, at all depths.
TreeSize(tr) == IF tr.t = "tree" THEN SizeOver(tr.v, DOMAIN tr.v) ELSE 0

\* The trees with at most n keys over the given leaves, and the mappings
\* over the given keys whose values hold at most n keys with their own.
RECURSIVE ObjTrees(_, _)
RECURSIVE Mappings(_, _, _)
Mappings(leaves, keys, n) ==
  IF keys = {} THEN {EmptyObject}
  ELSE LET k == CHOOSE x \in keys : TRUE
           vals == leaves \cup ObjTrees(leaves, n - Cardinality(keys))
       IN  UNION {{setProp(g, k, val) :
                     g \in Mappings(leaves, keys \ {k}, n - 1 - TreeSize(val))} :
                  val \in vals}
ObjTrees(leaves, n) ==
  {Tree(f) : f \in UNION {Mappings(leaves, S, n) :
                            S \in {T \in SUBSET Keys : Cardinality(T) <= n}}}

\* The objects of a tree laid out in the heap; returns the heap and the
\* value standing for the tree.
RECURSIVE alloc(_, _)
RECURSIVE allocKeys(_, _, _, _)
allocKeys(h, p, f, keys) ==
  IF keys = {} THEN h
  ELSE LET k == CHOOSE x \in keys : TRUE
           r == alloc(h, f[k])
           next == [r.heap EXCEPT ![p] = setProp(@, k, r.val)]
       IN  \* the heap so far is computed before the next key is taken
           CASE p \in DOMAIN next -> allocKeys(next, p, f, keys \ {k})
alloc(h, tr) ==
  IF tr.t # "tree" THEN [heap |-> h, val |-> tr]
  ELSE [heap |-> allocKeys(Append(h, EmptyObject), Len(h) + 1, tr.v, DOMAIN tr.v),
        val |-> Obj(Len(h) + 1)]

\* The tree a value stands for in a heap.
RECURSIVE deepVal(_, _)
deepVal(h, val) ==
  IF val.t = "object"
    THEN Tree([k \in DOMAIN h[val.v] |-> deepVal(h, h[val.v][k])])
    ELSE val

InitMerge ==
  /\ a = <<>>
  /\ b = <<>>
  /\ c = <<>>
  /\ threshold = DefaultThreshold
  /\ dist = None
  /\ sim = None
  /\ ScanIdle
  /\ FilesIdle
  /\ pc = "call"
  /\ \E n \in 0..MaxNodes :
       \E bt \in ObjTrees(BaseLeaves, n), ot \in ObjTrees(OverlayLeaves, MaxNodes - n) :
         /\ TreeSize(bt) = n
         /\ LET rb == alloc(<<>>, bt)
                ro == alloc(rb.heap, ot)
            IN  /\ heap = ro.heap
                /\ heap0 = ro.heap
                /\ base = rb.val
                /\ overlay = ro.val
  /\ ret = None
  /\ again = None

\* deepMerge(base, overlay) is called and returns.
CallDeepMerge ==
  /\ pc = "call"
  /\ LET r == deepMerge(heap, base, overlay)
     IN  /\ heap' = r.heap
         /\ ret' = r.val
  /\ heap0' = heap
  /\ pc' = "done"
  /\ UNCHANGED <<stringVars, scanVars, base, overlay, again, fileVars,
                 taskVars>>

NextMerge == CallDeepMerge

SpecMerge == InitMerge /\ [][NextMerge]_vars

\* What the claim says of the merge of the trees with mappings bf and of,
\* key by key and at every depth.  Where overlay holds a tree and base holds
\* a value that is no tree, the claim names no subtree of base to merge.
RECURSIVE MergedAsClaimed(_, _, _)
MergedAsClaimed(bf, of, r) ==
  /\ r.t = "tree"
  /\ DOMAIN r.v = DOMAIN bf \cup DOMAIN of
  /\ \A k \in DOMAIN r.v :
       IF k \notin DOMAIN of THEN r.v[k] = bf[k]
       ELSE IF of[k].t # "tree" THEN r.v[k] = of[k]
       ELSE IF k \notin DOMAIN bf THEN MergedAsClaimed(EmptyObject, of[k].v, r.v[k])
       ELSE IF bf[k].t = "tree" THEN MergedAsClaimed(bf[k].v, of[k].v, r.v[k])
       ELSE r.v[k].t = "tree"

\* C9: deepMerge(base, overlay) has the keys of both; a key of base alone
\* keeps its value, a key whose overlay value is a scalar, an array or null
\* takes it (arrays replaced whole), a key whose overlay value is a tree
\* holds the merge of base's subtree, or of an empty tree, with it; and
\* deepMerge(base, {}) is deep-equal to base.
C9_MergeResult ==
  pc = "done" =>
    LET B == deepVal(heap0, base)
        O == deepVal(heap0, overlay)
        R == deepVal(heap, ret)
    IN  /\ MergedAsClaimed(B.v, O.v, R)
        /\ O.v = EmptyObject => R = B

C9_Witness ==
  /\ pc = "done"
  /\ LET B == deepVal(heap0, base)
         O == deepVal(heap0, overlay)
         R == deepVal(heap, ret)
     IN  /\ B = Tree([a |-> Tree([a |-> Arr(<<Num(1)>>), b |-> Num(1)])])
         /\ O = Tree([a |-> Tree([a |-> Arr(<<Num(2)>>)])])
         /\ R = Tree([a |-> Tree([a |-> Arr(<<Num(2)>>), b |-> Num(1)])])

\* C10: deepMerge mutates neither argument: every object alive at the call
\* is unchanged at the return, so base and overlay are deep-equal to what
\* they were at every depth, and the tree returned is a new object.
C10_NoMutation ==
  pc = "done" =>
    /\ \A p \in DOMAIN heap0 : p \in DOMAIN heap /\ heap[p] = heap0[p]
    /\ deepVal(heap, base) = deepVal(heap0, base)
    /\ deepVal(heap, overlay) = deepVal(heap0, overlay)
    /\ ret.t = "object"
    /\ ret.v \notin DOMAIN heap0

C10_Witness ==
  /\ pc = "done"
  /\ Len(heap0) >= 4
  /\ \E k \in DOMAIN heap[base.v] \cap DOMAIN heap[overlay.v] :
       /\ heap[base.v][k].t = "object"
       /\ heap[overlay.v][k].t = "object"
       /\ heap[ret.v][k].t = "object"
       /\ heap[ret.v][k].v \notin DOMAIN heap0
       /\ heap[heap[ret.v][k].v] # heap[heap[base.v][k].v]

-----------------------------------------------------------------------------
(* settings.js: reading, merging and removing settings.json *)

\* new Date().toISOString() at time n
toISOString(n) == Str(<<"T", IndexKey(n)>>)

\* The default settings; now is the time its new Date() reads.
getDefaultSettings(now) ==
  Tree(
    "danizee-suite" :>
      Tree(
        "version" :>
          Str(<<"1", ".", "0", ".", "0">>)
        @@ "installedAt" :>
          toISOString(now)
        @@ "plugins" :>
          Tree(
            "claude-flow" :>
              Bool(TRUE)
            @@ "compound-engineering" :>
              Bool(TRUE)
            @@ "frontend-design" :>
              Bool(TRUE)))
    @@ "mcpServers" :>
      Tree(
        "claude-flow" :>
          Tree(
            "command" :>
              Str(<<"n", "p", "x">>)
            @@ "args" :>
              Arr(<<Str(<<"c", "l", "a", "u", "d", "e", "-", "f", "l", "o",
                          "w", "@", "a", "l", "p", "h", "a">>),
                    Str(<<"m", "c", "p">>),
                    Str(<<"s", "t", "a", "r", "t">>)>>)
            @@ "description" :>
              Str(<<"C", "l", "a", "u", "d", "e", " ", "F", "l", "o", "w",
                    " ", "m", "u", "l", "t", "i", "-", "a", "g", "e", "n",
                    "t", " ", "o", "r", "c", "h", "e", "s", "t", "r", "a",
                    "t", "i", "o", "n", " ", "w", "i", "t", "h", " ", "m",
                    "e", "m", "o", "r", "y", " ", "a", "n", "d", " ", "s",
                    "w", "a", "r", "m", " ", "s", "u", "p", "p", "o", "r",
                    "t">>)))
    @@ "permissions" :>
      Tree(
        "allow" :>
          Arr(<<Str(<<"B", "a", "s", "h", "(", "n", "p", "x", " ", "c",
                      "l", "a", "u", "d", "e", "-", "f", "l", "o", "w",
                      "*", ")">>),
                Str(<<"B", "a", "s", "h", "(", "g", "i", "t", " ", "w",
                      "o", "r", "k", "t", "r", "e", "e", "*", ")">>),
                Str(<<"R", "e", "a", "d", "(", "d", "o", "c", "s", "/",
                      "s", "o", "l", "u", "t", "i", "o", "n", "s", "/",
                      "*", "*", ")">>),
                Str(<<"W", "r", "i", "t", "e", "(", "d", "o", "c", "s",
                      "/", "s", "o", "l", "u", "t", "i", "o", "n", "s",
                      "/", "*", "*", ")">>)>>))
    @@ "features" :>
      Tree(
        "danizee-compound-memory" :>
          Bool(TRUE)
        @@ "danizee-compound-checkpoints" :>
          Bool(TRUE)
        @@ "danizee-compound-docs" :>
          Bool(TRUE)))

\* The table of getPluginSettings.
pluginSettings ==
  "claude-flow" :>
    Tree(
      "namespace" :>
        Str(<<"d", "a", "n", "i", "z", "e", "e", "-", "f", "l", "o", "w">>)
      @@ "swarm" :>
        Tree(
          "topologies" :>
            Arr(<<Str(<<"h", "i", "e", "r", "a", "r", "c", "h", "i", "c",
                        "a", "l">>),
                  Str(<<"m", "e", "s", "h">>),
                  Str(<<"r", "i", "n", "g">>),
                  Str(<<"s", "t", "a", "r">>)>>)
          @@ "defaultTopology" :>
            Str(<<"h", "i", "e", "r", "a", "r", "c", "h", "i", "c", "a",
                  "l">>))
      @@ "memory" :>
        Tree(
          "enabled" :>
            Bool(TRUE)
          @@ "namespaces" :>
            Arr(<<Str(<<"p", "r", "o", "j", "e", "c", "t", "/", "f", "e",
                        "a", "t", "u", "r", "e", "s", "/", "*">>),
                  Str(<<"p", "r", "o", "j", "e", "c", "t", "/", "b", "u",
                        "g", "s", "/", "*">>),
                  Str(<<"p", "r", "o", "j", "e", "c", "t", "/", "s", "e",
                        "c", "u", "r", "i", "t", "y", "/", "*">>),
                  Str(<<"p", "r", "o", "j", "e", "c", "t", "/", "p", "e",
                        "r", "f", "o", "r", "m", "a", "n", "c", "e", "/",
                        "*">>),
                  Str(<<"p", "r", "o", "j", "e", "c", "t", "/", "a", "r",
                        "c", "h", "i", "t", "e", "c", "t", "u", "r", "e",
                        "/", "*">>),
                  Str(<<"p", "r", "o", "j", "e", "c", "t", "/", "r", "e",
                        "v", "i", "e", "w", "s", "/", "*">>),
                  Str(<<"p", "r", "o", "j", "e", "c", "t", "/", "i", "n",
                        "c", "i", "d", "e", "n", "t", "s", "/", "*">>),
                  Str(<<"p", "r", "o", "j", "e", "c", "t", "/", "t", "d",
                        "d", "/", "*">>),
                  Str(<<"p", "r", "o", "j", "e", "c", "t", "/", "i", "m",
                        "p", "l", "e", "m", "e", "n", "t", "a", "t", "i",
                        "o", "n", "s", "/", "*">>),
                  Str(<<"p", "r", "o", "j", "e", "c", "t", "/", "d", "e",
                        "b", "u", "g", "g", "i", "n", "g", "/", "*">>),
                  Str(<<"p", "r", "o", "j", "e", "c", "t", "/", "f", "u",
                        "l", "l", "-", "t", "d", "d", "-", "s", "w", "a",
                        "r", "m", "/", "*">>),
                  Str(<<"p", "r", "o", "j", "e", "c", "t", "/", "m", "u",
                        "l", "t", "i", "-", "r", "e", "p", "o", "/", "*">>)>>))
      @@ "agents" :>
        Arr(<<Str(<<"c", "o", "d", "e", "r">>),
              Str(<<"t", "e", "s", "t", "e", "r">>),
              Str(<<"r", "e", "v", "i", "e", "w", "e", "r">>),
              Str(<<"s", "e", "c", "u", "r", "i", "t", "y", "-", "s", "e",
                    "n", "t", "i", "n", "e", "l">>),
              Str(<<"p", "e", "r", "f", "o", "r", "m", "a", "n", "c", "e",
                    "-", "o", "r", "a", "c", "l", "e">>),
              Str(<<"a", "r", "c", "h", "i", "t", "e", "c", "t", "u", "r",
                    "e", "-", "s", "t", "r", "a", "t", "e", "g", "i", "s",
                    "t">>),
              Str(<<"p", "a", "t", "t", "e", "r", "n", "-", "r", "e", "c",
                    "o", "g", "n", "i", "t", "i", "o", "n", "-", "s", "p",
                    "e", "c", "i", "a", "l", "i", "s", "t">>),
              Str(<<"c", "o", "d", "e", "-", "s", "i", "m", "p", "l", "i",
                    "c", "i", "t", "y", "-", "r", "e", "v", "i", "e", "w",
                    "e", "r">>),
              Str(<<"a", "n", "a", "l", "y", "s", "t">>),
              Str(<<"g", "i", "t", "-", "h", "i", "s", "t", "o", "r", "y",
                    "-", "a", "n", "a", "l", "y", "z", "e", "r">>),
              Str(<<"s", "y", "s", "t", "e", "m", "-", "a", "r", "c", "h",
                    "i", "t", "e", "c", "t">>)>>))
  @@ "compound-engineering" :>
    Tree(
      "namespace" :>
        Str(<<"d", "a", "n", "i", "z", "e", "e", "-", "c", "o", "m", "p",
              "o", "u", "n", "d">>)
      @@ "commands" :>
        Arr(<<Str(<<"p", "l", "a", "n">>),
              Str(<<"w", "o", "r", "k">>),
              Str(<<"r", "e", "v", "i", "e", "w">>),
              Str(<<"c", "o", "m", "p", "o", "u", "n", "d">>)>>)
      @@ "docsPath" :>
        Str(<<"d", "o", "c", "s", "/", "s", "o", "l", "u", "t", "i", "o",
              "n", "s">>)
      @@ "checkpoints" :>
        Tree(
          "enabled" :>
            Bool(TRUE)
          @@ "pauseMessage" :>
            Str(<<"S", "a", "y", " ", "\"", "c", "o", "n", "t", "i", "n",
                  "u", "e", "\"", " ", "t", "o", " ", "p", "r", "o", "c",
                  "e", "e", "d", " ", "o", "r", " ", "g", "i", "v", "e",
                  " ", "f", "e", "e", "d", "b", "a", "c", "k", " ", "t",
                  "o", " ", "r", "e", "d", "i", "r", "e", "c", "t", ".">>)))
  @@ "frontend-design" :>
    Tree(
      "namespace" :>
        Str(<<"d", "a", "n", "i", "z", "e", "e", "-", "f", "r", "o", "n",
              "t", "e", "n", "d">>)
      @@ "commands" :>
        Arr(<<Str(<<"d", "e", "s", "i", "g", "n">>),
              Str(<<"c", "o", "m", "p", "o", "n", "e", "n", "t">>),
              Str(<<"l", "a", "y", "o", "u", "t">>),
              Str(<<"t", "h", "e", "m", "e">>)>>)
      @@ "frameworks" :>
        Arr(<<Str(<<"r", "e", "a", "c", "t">>),
              Str(<<"v", "u", "e">>),
              Str(<<"s", "v", "e", "l", "t", "e">>)>>))

getPluginSettings(pluginName) ==
  IF pluginName \in DOMAIN pluginSettings THEN pluginSettings[pluginName]
  ELSE EmptyTree

\* fs.readFile then JSON.parse, inside try; the catch returns {}.
readSettingsNothing(d) == EmptyTree
readSettings(d) ==
  IF d.settings.kind = "json" THEN d.settings.tree ELSE EmptyTree

\* JSON.stringify then fs.writeFile, which throws when the directory of the
\* file does not exist.
writeSettings(d, settings) ==
  IF d.claudeDir
    THEN [threw |-> FALSE, disk |-> [d EXCEPT !.settings = JsonFile(settings)]]
    ELSE [threw |-> TRUE, disk |-> d]

\* merged.plugins = deepMerge(merged.plugins || {}, allPluginSettings)
\* (settings.js 166); returns the heap afterwards.
mergePlugins(h, merged, allPluginSettings) ==
  LET plugins == getProp(h, merged, "plugins")
      target == IF truthy(plugins) THEN [heap |-> h, val |-> plugins]
                ELSE newObject(h)
      mergedPlugins == deepMerge(target.heap, target.val, allPluginSettings)
  IN  [mergedPlugins.heap EXCEPT
         ![merged.v] = setProp(@, "plugins", mergedPlugins.val)]

\* if (options.force) { ... } (settings.js 168-172); returns the heap
\* afterwards.
stampIfForcing(h, merged, options, t1, t2) ==
  IF options.force
    THEN [h EXCEPT ![h[merged.v]["danizee-suite"].v] =
            setProp(setProp(@, "installedAt", toISOString(t1)),
                    "updatedAt", toISOString(t2))]
    ELSE h

\* await writeSettings(claudeDir, merged); return merged (settings.js
\* 174-176)
writeAndReturn(d, settings) ==
  [threw |-> writeSettings(d, settings).threw,
   disk |-> writeSettings(d, settings).disk,
   val |-> settings]

\* settings.js 165-176 on the three objects of lines 155-162.
mergeInto(d, options, t1, t2, h, existing, defaultSettings, allPluginSettings) ==
  LET merged == deepMerge(h, existing, defaultSettings)
  IN  writeAndReturn(d, deepVal(stampIfForcing(mergePlugins(merged.heap,
                                                            merged.val,
                                                            allPluginSettings),
                                               merged.val, options, t1, t2),
                                merged.val))

\* Returns the directory afterwards, the tree returned and whether the call
\* threw; t0, t1 and t2 are the times its three new Date() read.
mergeSettings(d, options, t0, t1, t2) ==
  LET existing == alloc(<<>>, readSettings(d))
      defaultSettings == alloc(existing.heap, getDefaultSettings(t0))
      allPluginSettings ==
        alloc(defaultSettings.heap,
              Tree("claude-flow" :> getPluginSettings("claude-flow")
                   @@ "compound-engineering" :>
                        getPluginSettings("compound-engineering")
                   @@ "frontend-design" :> getPluginSettings("frontend-design")))
  IN  mergeInto(d, options, t1, t2, allPluginSettings.heap, existing.val,
                defaultSettings.val, allPluginSettings.val)

\* delete settings[key] on a freshly parsed tree
deleteNothing(settings, key) == settings
deleteKey(settings, key) ==
  Tree([k \in DOMAIN settings.v \ {key} |-> settings.v[k]])

\* Returns the directory afterwards and whether the call threw.  fs.unlink
\* is inside try with an empty catch.
removeSettings(d, keepSettings) ==
  IF keepSettings
    THEN LET written == writeSettings(d, deleteKey(readSettings(d),
                                                   "danizee-suite"))
         IN  [threw |-> written.threw, disk |-> written.disk]
    ELSE [threw |-> FALSE, disk |-> [d EXCEPT !.settings = NoFile]]

\* The latest time the clock shows in a behaviour.
MaxClock == 3

\* What settings.json holds under each top-level key before the calls, or
\* nothing under that key; earlier installs recorded their times at 0.
MarkerBefore ==
  {EmptyObject,
   "danizee-suite" :> Null,
   "danizee-suite" :>
     Tree("version" :> Str(<<"0", ".", "9">>) @@ "installedAt" :> toISOString(0)),
   "danizee-suite" :>
     Tree("installedAt" :> toISOString(0) @@ "updatedAt" :> toISOString(0))}
PluginsBefore ==
  {EmptyObject,
   "plugins" :> Num(0),
   "plugins" :> Tree("mine" :> Bool(TRUE)),
   "plugins" :> Tree("claude-flow" :>
                       Tree("namespace" :> Str(<<"m", "y">>)
                            @@ "mine" :> Num(1)))}
ServersBefore ==
  {EmptyObject,
   "mcpServers" :>
     Tree("mine" :> Tree("command" :> Str(<<"n", "o", "d", "e">>)
                         @@ "args" :> Arr(<<Str(<<"x">>)>>)))}
PermissionsBefore ==
  {EmptyObject,
   "permissions" :> Tree("deny" :> Arr(<<Str(<<"R", "e", "a", "d">>)>>)
                         @@ "allow" :> Arr(<<Str(<<"L", "S">>)>>))}
ThemeBefore == {EmptyObject, "theme" :> Str(<<"d", "a", "r", "k">>)}

SettingsBefore ==
  {Tree(m @@ p @@ s @@ q @@ u) :
     m \in MarkerBefore, p \in PluginsBefore, s \in ServersBefore,
     q \in PermissionsBefore, u \in ThemeBefore}

InitSettings ==
  /\ a = <<>>
  /\ b = <<>>
  /\ c = <<>>
  /\ threshold = DefaultThreshold
  /\ dist = None
  /\ sim = None
  /\ ScanIdle
  /\ MergeIdle
  /\ pc = "settings"
  /\ disk \in {NoDirectory}
              \cup {[NoDirectory EXCEPT !.claudeDir = TRUE, !.settings = f] :
                      f \in {NoFile, Garbage}
                              \cup {JsonFile(tr) : tr \in SettingsBefore}}
  /\ disk0 = disk
  /\ clock = 1
  /\ call = None
  /\ out = None
  /\ task = None
  /\ order = <<>>
  /\ wrote = <<>>

\* mergeSettings(claudeDir, {force}) is called and returns or throws; the
\* clock may advance between its readings.
MergeSettings ==
  /\ pc = "settings"
  /\ \E force \in BOOLEAN, t0 \in clock..MaxClock :
       \E t1 \in t0..MaxClock :
         \E t2 \in t1..MaxClock :
           /\ force \/ (t1 = t0 /\ t2 = t0)
           /\ LET r == mergeSettings(disk, [force |-> force], t0, t1, t2)
              IN  /\ disk' = r.disk
                  /\ out' = [threw |-> r.threw, val |-> r.val]
           /\ clock' = t2
           /\ call' = [fn |-> "mergeSettings", flag |-> force, at |-> clock]
  /\ disk0' = disk
  /\ UNCHANGED <<stringVars, scanVars, mergeVars, pc, taskVars, wrote>>

\* removeSettings(claudeDir, keepSettings) is called and returns or throws.
RemoveSettings ==
  /\ pc = "settings"
  /\ \E keepSettings \in BOOLEAN :
       /\ LET r == removeSettings(disk, keepSettings)
          IN  /\ disk' = r.disk
              /\ out' = [threw |-> r.threw, val |-> EmptyTree]
       /\ call' = [fn |-> "removeSettings", flag |-> keepSettings, at |-> clock]
  /\ disk0' = disk
  /\ UNCHANGED <<stringVars, scanVars, mergeVars, pc, clock, taskVars,
                 wrote>>

NextSettings == MergeSettings \/ RemoveSettings

SpecSettings == InitSettings /\ [][NextSettings]_vars

-----------------------------------------------------------------------------
(* Properties of mergeSettings and removeSettings *)

\* The tree settings.json holds in a directory: its keys and values, none
\* when the file is absent or is not JSON.
OnDisk(d) == IF d.settings.kind = "json" THEN d.settings.tree ELSE EmptyTree

\* A tree without the given keys.
Without(tr, keys) == Tree([k \in DOMAIN tr.v \ keys |-> tr.v[k]])

\* A settings tree without the timestamps of its marker.
NoStamps(tr) ==
  IF "danizee-suite" \in DOMAIN tr.v /\ tr.v["danizee-suite"].t = "tree"
    THEN Tree([k \in DOMAIN tr.v |->
                 IF k = "danizee-suite"
                   THEN Without(tr.v[k], {"installedAt", "updatedAt"})
                   ELSE tr.v[k]])
    ELSE tr

\* A settings tree without its plugins key and without the timestamps of
\* its marker.
Unstamped(tr) == NoStamps(Without(tr, {"plugins"}))

\* The three plugin trees under their names.
PluginTrees ==
  [n \in {"claude-flow", "compound-engineering", "frontend-design"} |->
     getPluginSettings(n)]

\* Every key of the mapping ef that the overlay mapping of does not hold, at
\* every depth the two share, is in r with the value it has in ef.
RECURSIVE Preserved(_, _, _)
Preserved(ef, of, r) ==
  /\ r.t = "tree"
  /\ \A k \in DOMAIN ef :
       IF k \notin DOMAIN of THEN k \in DOMAIN r.v /\ r.v[k] = ef[k]
       ELSE (ef[k].t = "tree" /\ of[k].t = "tree") =>
              (k \in DOMAIN r.v /\ Preserved(ef[k].v, of[k].v, r.v[k]))

\* C11: called on an existing directory, mergeSettings returns the tree it
\* writes to settings.json; that tree is deepMerge(existing, defaults) with
\* its plugins key holding deepMerge(merged.plugins or {}, pluginTrees); and
\* every key of the settings on disk before the call that the defaults and
\* the plugin trees do not hold, at every depth, is in the written file
\* with its value.  The two timestamps of the marker are left to C12.
C11_MergeSettings ==
  (call # None /\ call.fn = "mergeSettings" /\ disk0.claudeDir) =>
    LET E == OnDisk(disk0)
        D == getDefaultSettings(call.at)
        R == out.val
        plugins == IF "plugins" \in DOMAIN E.v /\ E.v["plugins"].t = "tree"
                     THEN E.v["plugins"].v
                     ELSE EmptyObject
    IN  /\ ~out.threw
        /\ disk.settings = JsonFile(R)
        /\ MergedAsClaimed(Unstamped(E).v, Unstamped(D).v, Unstamped(R))
        /\ "plugins" \in DOMAIN R.v
        /\ ("plugins" \in DOMAIN E.v /\ truthy(E.v["plugins"])
              /\ E.v["plugins"].t # "tree") => R.v["plugins"].t = "tree"
        /\ ("plugins" \in DOMAIN E.v => (E.v["plugins"].t = "tree"
                                          \/ ~truthy(E.v["plugins"])))
             => MergedAsClaimed(plugins, PluginTrees, R.v["plugins"])
        /\ Preserved(NoStamps(E).v, D.v @@ ("plugins" :> Tree(PluginTrees)),
                     NoStamps(OnDisk(disk)))

C11_Witness ==
  /\ call # None
  /\ call.fn = "mergeSettings"
  /\ disk0.settings.kind = "json"
  /\ DOMAIN disk0.settings.tree.v = {"plugins", "mcpServers", "permissions", "theme"}
  /\ disk0.settings.tree.v["plugins"] = Tree("mine" :> Bool(TRUE))
  /\ disk.settings.kind = "json"
  /\ DOMAIN disk.settings.tree.v =
       {"danizee-suite", "features", "plugins", "mcpServers", "permissions",
        "theme"}
  /\ DOMAIN disk.settings.tree.v["plugins"].v =
       {"mine", "claude-flow", "compound-engineering", "frontend-design"}
  /\ DOMAIN disk.settings.tree.v["mcpServers"].v = {"mine", "claude-flow"}
  /\ DOMAIN disk.settings.tree.v["permissions"].v = {"deny", "allow"}
  /\ disk.settings.tree.v["theme"] = Str(<<"d", "a", "r", "k">>)

\* The marker of a settings tree when it is a tree, else an empty tree.
MarkerOf(tr) ==
  IF "danizee-suite" \in DOMAIN tr.v /\ tr.v["danizee-suite"].t = "tree"
    THEN tr.v["danizee-suite"]
    ELSE EmptyTree

\* C12: when mergeSettings returns, with force set the marker's installedAt
\* and updatedAt both hold a time read during the call; with force not set
\* an installedAt that the marker on disk recorded before the call is
\* unchanged, and the marker has an updatedAt only if it had one before.
C12_StampsOnlyWhenForcing ==
  (call # None /\ call.fn = "mergeSettings" /\ ~out.threw) =>
    LET before == MarkerOf(OnDisk(disk0)).v
        after == MarkerOf(OnDisk(disk)).v
        Now == {toISOString(n) : n \in call.at..clock}
    IN  IF call.flag
          THEN /\ "installedAt" \in DOMAIN after
               /\ after["installedAt"] \in Now
               /\ "updatedAt" \in DOMAIN after
               /\ after["updatedAt"] \in Now
          ELSE /\ "installedAt" \in DOMAIN before =>
                    /\ "installedAt" \in DOMAIN after
                    /\ after["installedAt"] = before["installedAt"]
               /\ "updatedAt" \in DOMAIN after => "updatedAt" \in DOMAIN before

\* C13: removeSettings with keepSettings = true on a settings.json that
\* holds a tree returns and leaves a settings.json with exactly the keys
\* and values of that tree apart from the top-level marker key.
C13_RemoveOnlyMarker ==
  (call # None /\ call.fn = "removeSettings" /\ call.flag
     /\ disk0.settings.kind = "json") =>
    /\ ~out.threw
    /\ disk.settings.kind = "json"
    /\ DOMAIN disk.settings.tree.v =
         DOMAIN disk0.settings.tree.v \ {"danizee-suite"}
    /\ \A k \in DOMAIN disk.settings.tree.v :
         disk.settings.tree.v[k] = disk0.settings.tree.v[k]
    /\ disk = [disk0 EXCEPT !.settings = disk.settings]

\* The marker removed from a file that an earlier mergeSettings wrote over
\* the user's own settings.
C13_Witness ==
  /\ call # None
  /\ call.fn = "removeSettings"
  /\ call.flag
  /\ disk0.settings.kind = "json"
  /\ DOMAIN disk0.settings.tree.v =
       {"danizee-suite", "features", "plugins", "mcpServers", "permissions",
        "theme"}
  /\ "plugins" \in DOMAIN MarkerOf(disk0.settings.tree).v
  /\ DOMAIN disk.settings.tree.v =
       {"features", "plugins", "mcpServers", "permissions", "theme"}
  /\ disk.settings.tree.v["theme"] = Str(<<"d", "a", "r", "k">>)
  /\ "mine" \in DOMAIN disk.settings.tree.v["plugins"].v

-----------------------------------------------------------------------------
(* conflicts.js: the four checks on the directory and runConflictChecks *)

\* The own properties of a parsed value; no check writes to one, so a tree
\* is read where it stands.
props(val) == IF val.t = "tree" THEN val.v ELSE ownProps(<<>>, val)

\* val[key] and val.key on a value that is neither null nor undefined
field(val, key) ==
  IF key \in DOMAIN props(val) THEN props(val)[key] ELSE Undefined

\* Object.keys and Object.entries list the keys in the order the file has
\* them; a tree here keeps one order for its keys.
RECURSIVE ObjectKeys(_)
ObjectKeys(S) ==
  IF S = {} THEN <<>>
  ELSE LET k == CHOOSE x \in S : TRUE
       IN  <<k>> \o ObjectKeys(S \ {k})

\* The loops of conflicts.js 67-81 on one listing, from position p on.
RECURSIVE scanPairs(_, _, _, _)
scanPairs(dir, listing, p, acc) ==
  IF p.done THEN acc
  ELSE LET nameA == replaceMd(listing[p.i + 1])
           nameB == replaceMd(listing[p.j + 1])
       IN  scanPairs(dir, listing, afterPair(p.i, p.j, Len(listing)),
                     IF areSimilar(nameA, nameB, DefaultThreshold)
                       THEN push(acc, similarCommands(dir, listing[p.i + 1],
                                                      listing[p.j + 1],
                                                      nameA, nameB))
                       ELSE acc)

\* The loop of conflicts.js 60-83 from the n-th entry on.  fs.stat throws on
\* a link to nothing, and the catch of line 84 ends the scan.
RECURSIVE scanEntries(_, _, _)
scanEntries(entries, n, acc) ==
  IF n > Len(entries) THEN acc
  ELSE LET e == entries[n]
       IN  CASE e.kind = "dangling" -> acc
             [] e.kind = "dir" ->
                  scanEntries(entries, n + 1,
                              scanPairs(e.name, e.files,
                                        outerFrom(0, Len(e.files)), acc))
             [] OTHER -> scanEntries(entries, n + 1, acc)

\* fs.readdir(commandsDir) throws when commands/ is absent.
detectDuplicateCommands(d) ==
  IF d.commands.exists THEN scanEntries(d.commands.entries, 1, <<>>) ELSE <<>>

pluginOverride(plugin) ==
  [type |-> "plugin_override", plugin |-> plugin, message |-> <<plugin>>]

mcpServerOverride(server) ==
  [type |-> "mcp_server_override", server |-> server, message |-> <<server>>]

\* if (localSettings.plugins[plugin]) and if (localSettings.mcpServers[server])
definedIn(section, key) == truthy(field(section, key))

\* The loops of conflicts.js 108-118 and 121-131 over the keys not yet
\* visited.
RECURSIVE overrides(_, _, _, _)
overrides(keys, localSection, type, acc) ==
  IF keys = <<>> THEN acc
  ELSE overrides(Tail(keys), localSection, type,
                 IF definedIn(localSection, Head(keys))
                   THEN push(acc, IF type = "plugin_override"
                                    THEN pluginOverride(Head(keys))
                                    ELSE mcpServerOverride(Head(keys)))
                   ELSE acc)

\* The two loops of conflicts.js 107-131 on the two parsed files.
overridesIn(settings, localSettings) ==
  LET plugins ==
        IF truthy(field(settings, "plugins"))
             /\ truthy(field(localSettings, "plugins"))
          THEN overrides(ObjectKeys(DOMAIN props(field(settings, "plugins"))),
                         field(localSettings, "plugins"), "plugin_override",
                         <<>>)
          ELSE <<>>
  IN  IF truthy(field(settings, "mcpServers"))
           /\ truthy(field(localSettings, "mcpServers"))
        THEN overrides(ObjectKeys(DOMAIN props(field(settings, "mcpServers"))),
                       field(localSettings, "mcpServers"),
                       "mcp_server_override", plugins)
        ELSE plugins

\* A file that is absent fails fs.access; text that is not JSON makes
\* JSON.parse throw before anything is pushed.
detectSettingsConflicts(d) ==
  IF d.settings.kind # "json" \/ d.local.kind # "json" THEN <<>>
  ELSE overridesIn(d.settings.tree, d.local.tree)

\* JSON.stringify of a value read from a JSON file, as a sequence of
\* characters; of undefined it is undefined, which is None here.
escape(ch) == IF ch \in {"\"", "\\"} THEN <<"\\", ch>> ELSE <<ch>>

RECURSIVE quoted(_)
quoted(s) == IF s = <<>> THEN <<>> ELSE escape(Head(s)) \o quoted(Tail(s))

RECURSIVE stringify(_)
RECURSIVE stringifyElements(_)
RECURSIVE stringifyMembers(_, _)
stringifyElements(xs) ==
  IF xs = <<>> THEN <<>>
  ELSE stringify(Head(xs))
         \o (IF Tail(xs) = <<>> THEN <<>> ELSE <<",">>)
         \o stringifyElements(Tail(xs))
stringifyMembers(f, keys) ==
  IF keys = <<>> THEN <<>>
  ELSE <<"\"", Head(keys), "\"", ":">> \o stringify(f[Head(keys)])
         \o (IF Tail(keys) = <<>> THEN <<>> ELSE <<",">>)
         \o stringifyMembers(f, Tail(keys))
stringify(val) ==
  CASE val.t = "undefined" -> None
    [] val.t = "null" -> <<"null">>
    [] val.t = "boolean" -> IF val.v THEN <<"true">> ELSE <<"false">>
    [] val.t = "number" -> <<IndexKey(val.v)>>
    [] val.t = "string" -> <<"\"">> \o quoted(val.v) \o <<"\"">>
    [] val.t = "array" -> <<"[">> \o stringifyElements(val.v) \o <<"]">>
    [] val.t = "tree" ->
         <<"{">> \o stringifyMembers(val.v, ObjectKeys(DOMAIN val.v)) \o <<"}">>

\* x === y on two values read from a JSON file: primitives by type and
\* value, and no array or tree is the same object as another.
strictEquals(x, y) == x.t \notin {"array", "tree"} /\ x = y

duplicateMcp(nameA, nameB) ==
  [type |-> "duplicate_mcp", servers |-> <<nameA, nameB>>,
   message |-> <<nameA, nameB>>]

\* The test of conflicts.js 184-185
sameCommandOnly(configA, configB) ==
  strictEquals(field(configA, "command"), field(configB, "command"))
sameCommandAndArgs(configA, configB) ==
  /\ strictEquals(field(configA, "command"), field(configB, "command"))
  /\ stringify(field(configA, "args")) = stringify(field(configB, "args"))

\* The loops of conflicts.js 178-193 from position p on.  Reading .command
\* of null throws, and the catch of line 195 ends the loops.
RECURSIVE serverPairs(_, _, _, _)
serverPairs(mcpServers, servers, p, acc) ==
  IF p.done THEN acc
  ELSE LET nameA == servers[p.i + 1]
           nameB == servers[p.j + 1]
           configA == field(mcpServers, nameA)
           configB == field(mcpServers, nameB)
       IN  IF configA.t = "null" \/ configB.t = "null" THEN acc
           ELSE serverPairs(mcpServers, servers,
                            afterPair(p.i, p.j, Len(servers)),
                            IF sameCommandAndArgs(configA, configB)
                              THEN push(acc, duplicateMcp(nameA, nameB))
                              ELSE acc)

\* fs.readFile throws on an absent file and JSON.parse on text that is not
\* JSON; the catch of line 195 returns what was pushed so far.
detectMcpConflicts(d) ==
  IF d.settings.kind # "json" THEN <<>>
  ELSE LET mcpServers == field(d.settings.tree, "mcpServers")
           servers == ObjectKeys(DOMAIN props(mcpServers))
       IN  IF truthy(mcpServers)
             THEN serverPairs(mcpServers, servers, outerFrom(0, Len(servers)),
                              <<>>)
             ELSE <<>>

\* version || 'unknown'
unknown == Str(<<"u", "n", "k", "n", "o", "w", "n">>)

detectExistingNothing(d) == [installed |-> FALSE]
detectExistingInstallation(d) ==
  IF d.settings.kind # "json" THEN [installed |-> FALSE]
  ELSE LET marker == field(d.settings.tree, "danizee-suite")
       IN  IF truthy(marker)
             THEN [installed |-> TRUE,
                   version |-> IF truthy(field(marker, "version"))
                                 THEN field(marker, "version")
                                 ELSE unknown,
                   installedAt |-> field(marker, "installedAt")]
             ELSE [installed |-> FALSE]

existingInstallation(version) ==
  [type |-> "existing_installation", version |-> version,
   message |-> <<version>>]

\* The report built from the values the four promises resolved to
\* (conflicts.js 215-229).
report(duplicateCommands, settingsConflicts, mcpConflicts, existing, options) ==
  LET allConflicts ==
        (duplicateCommands \o settingsConflicts \o mcpConflicts)
          \o (IF existing.installed /\ ~options.force
                THEN <<existingInstallation(existing.version)>>
                ELSE <<>>)
  IN  [hasConflicts |-> Len(allConflicts) > 0,
       conflicts |-> allConflicts,
       existing |-> existing]

runConflictChecks(d, options) ==
  report(detectDuplicateCommands(d), detectSettingsConflicts(d),
         detectMcpConflicts(d), detectExistingInstallation(d), options)

-----------------------------------------------------------------------------
(* The directories the checks are run on *)

\* Most entries of commands/.
MaxEntries == 2

planTxt == plan \o <<".", "t", "x", "t">>
ab == <<"a", "b">>
aMdb == <<"a", ".", "m", "d", "b">>

CommandListings ==
  {<<>>, <<planMd>>, <<plannMd>>, <<planMd, plannMd>>, <<reviewMd, planMd>>,
   <<planMd, plannMd, reviewMd>>, <<planMd, planTxt>>, <<aMdb, ab>>}

CommandEntries ==
  {Entry(n, "dir", l) : n \in {"workflows", "analysis"}, l \in CommandListings}
    \cup {Entry("README.md", "file", <<>>), Entry("old", "dangling", <<>>)}

\* The sequences of at most n entries with different names.
CommandDirs(n) ==
  {NoCommands}
    \cup {Commands(es) :
            es \in {q \in UNION {[1..k -> CommandEntries] : k \in 0..n} :
                      \A x, y \in DOMAIN q : x # y => q[x].name # q[y].name}}

Server(command, args) == Tree("command" :> Str(command) @@ "args" :> Arr(args))
npx == <<"n", "p", "x">>
node == <<"n", "o", "d", "e">>
argX == Str(<<"x">>)
argY == Str(<<"y">>)

MarkerFound ==
  {EmptyObject,
   "danizee-suite" :> Null,
   "danizee-suite" :> EmptyTree,
   "danizee-suite" :>
     Tree("version" :> Str(<<"1", ".", "0", ".", "0">>)
          @@ "installedAt" :> toISOString(0))}
PluginsFound ==
  {EmptyObject,
   "plugins" :> Tree("x" :> Bool(TRUE)),
   "plugins" :> Tree("x" :> Bool(TRUE) @@ "y" :> Bool(FALSE))}
ServersFound ==
  {EmptyObject,
   "mcpServers" :> Tree("a" :> Server(npx, <<argX>>) @@ "b" :> Server(npx, <<argX>>)),
   "mcpServers" :> Tree("a" :> Server(npx, <<argX>>) @@ "b" :> Server(npx, <<argY>>)),
   "mcpServers" :> Tree("a" :> Server(npx, <<argX>>) @@ "b" :> Server(node, <<argX>>)),
   "mcpServers" :> Tree("a" :> Server(npx, <<argX, argY>>) @@ "b" :> Server(npx, <<argX>>)),
   "mcpServers" :> Tree("a" :> Server(npx, <<Str(<<"1">>)>>)
                        @@ "b" :> Server(npx, <<Num(1)>>)),
   "mcpServers" :> Tree("a" :> Tree("command" :> Str(npx))
                        @@ "b" :> Tree("command" :> Str(npx))),
   "mcpServers" :> Tree("a" :> Server(npx, <<argX>>) @@ "b" :> Server(node, <<>>)
                        @@ "c" :> Server(npx, <<argX>>)),
   "mcpServers" :> Tree("a" :> Server(npx, <<>>) @@ "b" :> Server(npx, <<>>)
                        @@ "c" :> Server(npx, <<>>))}

SettingsFound ==
  {NoFile, Garbage}
    \cup {JsonFile(Tree(m @@ p @@ s)) :
            m \in MarkerFound, p \in PluginsFound, s \in ServersFound}

LocalPlugins ==
  {EmptyObject,
   "plugins" :> Tree("x" :> Bool(TRUE)),
   "plugins" :> Tree("x" :> Bool(FALSE)),
   "plugins" :> Tree("x" :> Null @@ "y" :> Num(0)),
   "plugins" :> Tree("x" :> Str(<<>>) @@ "z" :> Bool(TRUE)),
   "plugins" :> Tree("z" :> Bool(TRUE))}
LocalServers ==
  {EmptyObject,
   "mcpServers" :> Tree("a" :> Server(node, <<>>)),
   "mcpServers" :> Tree("a" :> Null @@ "b" :> Bool(FALSE)),
   "mcpServers" :> Tree("d" :> Server(npx, <<argX>>))}

LocalFound ==
  {NoFile, Garbage}
    \cup {JsonFile(Tree(p @@ s)) : p \in LocalPlugins, s \in LocalServers}

\* A few of each, to go with every one of the others.
CommandsCore == {NoCommands, Commands(<<Entry("workflows", "dir", <<planMd, plannMd>>)>>)}
SettingsCore ==
  {NoFile,
   JsonFile(Tree(("danizee-suite" :>
                    Tree("version" :> Str(<<"1", ".", "0", ".", "0">>)
                         @@ "installedAt" :> toISOString(0)))
                 @@ ("plugins" :> Tree("x" :> Bool(TRUE)))
                 @@ ("mcpServers" :> Tree("a" :> Server(npx, <<argX>>)
                                          @@ "b" :> Server(npx, <<argX>>)))))}
LocalCore ==
  {NoFile,
   JsonFile(Tree(("plugins" :> Tree("x" :> Bool(TRUE)))
                 @@ ("mcpServers" :> Tree("a" :> Server(node, <<>>)))))}

DirectoriesFound ==
  {NoDirectory}
    \cup {[NoDirectory EXCEPT !.claudeDir = TRUE, !.settings = s, !.local = l,
                              !.commands = cm] :
            s \in SettingsFound, l \in LocalCore, cm \in CommandsCore}
    \cup {[NoDirectory EXCEPT !.claudeDir = TRUE, !.settings = s, !.local = l,
                              !.commands = cm] :
            s \in SettingsCore, l \in LocalFound, cm \in CommandsCore}
    \cup {[NoDirectory EXCEPT !.claudeDir = TRUE, !.settings = s, !.local = l,
                              !.commands = cm] :
            s \in SettingsCore, l \in LocalCore, cm \in CommandDirs(MaxEntries)}

InitDetect ==
  /\ a = <<>>
  /\ b = <<>>
  /\ c = <<>>
  /\ threshold = DefaultThreshold
  /\ dist = None
  /\ sim = None
  /\ ScanIdle
  /\ MergeIdle
  /\ pc = "detect"
  /\ disk \in DirectoriesFound
  /\ disk0 = disk
  /\ clock = 1
  /\ call = None
  /\ out = None
  /\ task = None
  /\ order = <<>>
  /\ wrote = <<>>

\* One of the checks is called on the directory and returns; none of them
\* has a path on which it throws.
DetectDuplicateCommands ==
  /\ pc = "detect"
  /\ pc' = "done"
  /\ call' = [fn |-> "detectDuplicateCommands", flag |-> FALSE, at |-> clock]
  /\ out' = [threw |-> FALSE, val |-> detectDuplicateCommands(disk)]
  /\ UNCHANGED <<stringVars, scanVars, mergeVars, disk, disk0, clock, taskVars,
                 wrote>>

DetectSettingsConflicts ==
  /\ pc = "detect"
  /\ pc' = "done"
  /\ call' = [fn |-> "detectSettingsConflicts", flag |-> FALSE, at |-> clock]
  /\ out' = [threw |-> FALSE, val |-> detectSettingsConflicts(disk)]
  /\ UNCHANGED <<stringVars, scanVars, mergeVars, disk, disk0, clock, taskVars,
                 wrote>>

DetectMcpConflicts ==
  /\ pc = "detect"
  /\ pc' = "done"
  /\ call' = [fn |-> "detectMcpConflicts", flag |-> FALSE, at |-> clock]
  /\ out' = [threw |-> FALSE, val |-> detectMcpConflicts(disk)]
  /\ UNCHANGED <<stringVars, scanVars, mergeVars, disk, disk0, clock, taskVars,
                 wrote>>

DetectExistingInstallation ==
  /\ pc = "detect"
  /\ pc' = "done"
  /\ call' = [fn |-> "detectExistingInstallation", flag |-> FALSE, at |-> clock]
  /\ out' = [threw |-> FALSE, val |-> detectExistingInstallation(disk)]
  /\ UNCHANGED <<stringVars, scanVars, mergeVars, disk, disk0, clock, taskVars,
                 wrote>>

NextDetect ==
  \/ DetectDuplicateCommands
  \/ DetectSettingsConflicts
  \/ DetectMcpConflicts
  \/ DetectExistingInstallation

SpecDetect == InitDetect /\ [][NextDetect]_vars

-----------------------------------------------------------------------------
(* Properties of the four checks *)

\* A file name without its extension: what stands before its last dot,
\* when that dot is not its first character.
stripExtension(s) ==
  LET dots == {k \in 2..Len(s) : s[k] = "."}
  IN  IF dots = {} THEN s
      ELSE SubSeq(s, 1, (CHOOSE k \in dots : \A g \in dots : g <= k) - 1)

\* The subdirectories of commands/.
Subdirectories(d) ==
  {e \in {d.commands.entries[n] : n \in DOMAIN d.commands.entries} :
     e.kind = "dir"}

\* The pairs of files of one command subdirectory whose names without
\* extension are similar, each pair with the name of its subdirectory.
SimilarPairs(d) ==
  UNION {{<<e.name, {e.files[pq[1]], e.files[pq[2]]}>> :
            pq \in {rs \in (DOMAIN e.files) \X (DOMAIN e.files) :
                      /\ rs[1] < rs[2]
                      /\ areSimilar(stripExtension(e.files[rs[1]]),
                                    stripExtension(e.files[rs[2]]),
                                    DefaultThreshold)}} :
           e \in Subdirectories(d)}

\* C14: detectDuplicateCommands returns exactly one similar_commands record,
\* with the directory name and the two file names, for every pair of files
\* of one command subdirectory whose names without extension are similar,
\* and nothing else: no pair across subdirectories, nothing for an entry
\* that is no directory, nothing when commands/ is absent.
C14_SimilarCommands ==
  (call # None /\ call.fn = "detectDuplicateCommands") =>
    /\ \A n \in DOMAIN out.val : out.val[n].type = "similar_commands"
    /\ {<<out.val[n].directory, {out.val[n].files[1], out.val[n].files[2]}>> :
          n \in DOMAIN out.val} = SimilarPairs(disk)
    /\ Len(out.val) = Cardinality(SimilarPairs(disk))

\* The keys that both settings.json and settings.local.json hold under a
\* top-level key.
InBoth(d, section) ==
  DOMAIN props(field(d.settings.tree, section))
    \cap DOMAIN props(field(d.local.tree, section))

\* The positions of the records of one type in a sequence of records.
OfType(records, type) == {n \in DOMAIN records : records[n].type = type}

\* C15: with settings.json and settings.local.json both present,
\* detectSettingsConflicts returns exactly one plugin_override record for
\* every key that both plugins maps hold and exactly one
\* mcp_server_override record for every key that both mcpServers maps hold,
\* whatever the values, and no other record.
C15_Overrides ==
  (call # None /\ call.fn = "detectSettingsConflicts"
     /\ disk.settings.kind = "json" /\ disk.local.kind = "json") =>
    LET plugins == OfType(out.val, "plugin_override")
        servers == OfType(out.val, "mcp_server_override")
    IN  /\ plugins \cup servers = DOMAIN out.val
        /\ {out.val[n].plugin : n \in plugins} = InBoth(disk, "plugins")
        /\ Cardinality(plugins) = Cardinality(InBoth(disk, "plugins"))
        /\ {out.val[n].server : n \in servers} = InBoth(disk, "mcpServers")
        /\ Cardinality(servers) = Cardinality(InBoth(disk, "mcpServers"))

\* What a server entry holds under a key, or undefined.
Held(config, key) ==
  IF key \in DOMAIN config.v THEN config.v[key] ELSE Undefined

\* The unordered pairs of different server keys whose entries hold the same
\* command and args with the same elements.
DuplicateServers(d) ==
  LET mcpServers == props(field(d.settings.tree, "mcpServers"))
  IN  {{p, q} : p, q \in DOMAIN mcpServers} \cap
      {pq \in SUBSET DOMAIN mcpServers :
         /\ Cardinality(pq) = 2
         /\ \A p, q \in pq :
              /\ Held(mcpServers[p], "command") = Held(mcpServers[q], "command")
              /\ Held(mcpServers[p], "args") = Held(mcpServers[q], "args")}

\* C16: detectMcpConflicts returns exactly one duplicate_mcp record naming
\* both keys for every unordered pair of different entries of mcpServers
\* whose commands are the same and whose args have the same elements, and
\* no record for any other pair.
C16_DuplicateMcp ==
  (call # None /\ call.fn = "detectMcpConflicts"
     /\ disk.settings.kind = "json") =>
    /\ \A n \in DOMAIN out.val : out.val[n].type = "duplicate_mcp"
    /\ {{out.val[n].servers[1], out.val[n].servers[2]} : n \in DOMAIN out.val}
         = DuplicateServers(disk)
    /\ Len(out.val) = Cardinality(DuplicateServers(disk))

\* Of three servers the first and the third are duplicates and the second
\* differs.
C16_Witness ==
  /\ call # None
  /\ call.fn = "detectMcpConflicts"
  /\ disk.settings.kind = "json"
  /\ DOMAIN props(field(disk.settings.tree, "mcpServers")) = {"a", "b", "c"}
  /\ Len(out.val) = 1
  /\ {out.val[1].servers[1], out.val[1].servers[2]} = {"a", "c"}

\* settings.json holds a tree with the top-level marker key.
MarkerPresent(d) ==
  d.settings.kind = "json" /\ "danizee-suite" \in DOMAIN d.settings.tree.v

\* C17: detectExistingInstallation returns installed = true exactly when the
\* settings tree has the top-level marker key, and then the version the
\* marker records, or "unknown" when it records none, and the installedAt
\* it records; otherwise it returns installed = false.
C17_ExistingInstallation ==
  (call # None /\ call.fn = "detectExistingInstallation") =>
    /\ out.val.installed <=> MarkerPresent(disk)
    /\ out.val.installed =>
         LET marker == disk.settings.tree.v["danizee-suite"]
         IN  /\ out.val.version =
                  (IF "version" \in DOMAIN props(marker)
                     THEN props(marker)["version"]
                     ELSE unknown)
             /\ out.val.installedAt = field(marker, "installedAt")

-----------------------------------------------------------------------------
(* runConflictChecks: the four checks running together *)

\* The checks in the order Promise.all is given them (conflicts.js 209-212).
Checks == <<"duplicateCommands", "settingsConflicts", "mcpConflicts", "existing">>

\* Each check has run up to its first await: fs.readdir(commandsDir),
\* fs.access(settingsPath) and twice fs.readFile(settingsPath).  conflicts
\* is the array local to the check.
started ==
  [duplicateCommands |->
     [pc |-> "readdir", conflicts |-> <<>>, n |-> 0, val |-> None],
   settingsConflicts |->
     [pc |-> "access", conflicts |-> <<>>, settingsExists |-> FALSE,
      settings |-> None, val |-> None],
   mcpConflicts |-> [pc |-> "readFile", val |-> None],
   existing |-> [pc |-> "readFile", val |-> None]]

\* The check returns val: its promise is fulfilled with it.
resolved(t, val) == [t EXCEPT !.pc = "resolved", !.val = val]

\* What was awaited throws inside the try: the empty catch block is
\* entered and the check goes on to return conflicts (84-88, 133-137).
uncaught(t) == [t EXCEPT !.pc = "rejected"]
caught(t) == resolved(t, t.conflicts)

Settled(t) == t.pc \in {"resolved", "rejected"}

\* The completion order with the check added once it has returned.
completed(ord, name, t) == IF Settled(t) THEN Append(ord, name) ELSE ord

\* for (const subdir of subdirs), at the n-th entry: the loop body runs up
\* to fs.stat, or the loop is over and conflicts is returned.
nextSubdir(d, t, n) ==
  IF n > Len(d.commands.entries) THEN resolved(t, t.conflicts)
  ELSE [t EXCEPT !.pc = "stat", !.n = n]

\* fs.readdir(commandsDir) has completed (conflicts.js 58).
readdirCommands(d, t) ==
  IF d.commands.exists THEN nextSubdir(d, t, 1) ELSE caught(t)

\* fs.stat(subdirPath) has completed (conflicts.js 62-64).
statSubdir(d, t) ==
  LET e == d.commands.entries[t.n]
  IN  CASE e.kind = "dangling" -> caught(t)
        [] e.kind = "dir" -> [t EXCEPT !.pc = "readdirSubdir"]
        [] OTHER -> nextSubdir(d, t, t.n + 1)

\* fs.readdir(subdirPath) has completed and the pair loops have run
\* (conflicts.js 65-81).
readdirSubdir(d, t) ==
  LET e == d.commands.entries[t.n]
      pushed == scanPairs(e.name, e.files, outerFrom(0, Len(e.files)),
                          t.conflicts)
  IN  nextSubdir(d, [t EXCEPT !.conflicts = pushed], t.n + 1)

\* fs.access(settingsPath) has completed (conflicts.js 100).
accessSettings(d, t) ==
  [t EXCEPT !.pc = "accessLocal", !.settingsExists = d.settings.kind # "absent"]

\* fs.access(localSettingsPath) has completed (conflicts.js 101-103).
accessLocal(d, t) ==
  LET localExists == d.local.kind # "absent"
  IN  IF t.settingsExists /\ localExists THEN [t EXCEPT !.pc = "readFile"]
      ELSE resolved(t, t.conflicts)

\* fs.readFile(settingsPath) has completed and its text is parsed (104).
readFileSettings(d, t) ==
  IF d.settings.kind = "json"
    THEN [t EXCEPT !.pc = "readFileLocal", !.settings = d.settings.tree]
    ELSE caught(t)

\* fs.readFile(localSettingsPath) has completed, its text is parsed and
\* the two loops have run (conflicts.js 105-137).
readFileLocal(d, t) ==
  IF d.local.kind = "json"
    THEN resolved(t, overridesIn(t.settings, d.local.tree))
    ELSE caught(t)

\* The values Promise.all resolves to: those of the promises in the order
\* it was given them, whatever the order they completed in.
IsArrayCheck(name) == name # "existing"
settledAsCompleted(t, ord) ==
  LET arrays == SelectSeq(ord, IsArrayCheck)
  IN  [k \in 1..4 |-> IF k = 4 THEN t.existing.val ELSE t[arrays[k]].val]
settled(t, ord) == [k \in 1..4 |-> t[Checks[k]].val]

\* The directories runConflictChecks is run on: every file absent, not
\* JSON, or one of a few trees, and commands/ absent, empty, or holding
\* up to MaxEntries of directories, plain files and links to nothing.
SettingsChecked ==
  SettingsCore
    \cup {Garbage,
          JsonFile(Tree("danizee-suite" :> Null)),
          JsonFile(Tree("danizee-suite" :> EmptyTree)),
          JsonFile(Tree("plugins" :> Tree("x" :> Bool(TRUE))))}
LocalChecked == LocalCore \cup {Garbage}
CommandsChecked ==
  LET workflows == Entry("workflows", "dir", <<planMd, plannMd>>)
      analysis == Entry("analysis", "dir", <<reviewMd, planMd, plannMd>>)
      readme == Entry("README.md", "file", <<>>)
      old == Entry("old", "dangling", <<>>)
  IN  CommandDirs(MaxEntries)
        \cap ({NoCommands, Commands(<<>>)}
                \cup {Commands(es) :
                        es \in {<<workflows>>, <<readme, analysis>>,
                                <<workflows, analysis>>, <<workflows, old>>,
                                <<old, workflows>>}})
DirectoriesChecked ==
  {NoDirectory}
    \cup {[NoDirectory EXCEPT !.claudeDir = TRUE, !.settings = s, !.local = l,
                              !.commands = cm] :
            s \in SettingsChecked, l \in LocalChecked, cm \in CommandsChecked}

InitChecks ==
  /\ a = <<>>
  /\ b = <<>>
  /\ c = <<>>
  /\ threshold = DefaultThreshold
  /\ dist = None
  /\ sim = None
  /\ ScanIdle
  /\ MergeIdle
  /\ pc = "checks"
  /\ disk \in DirectoriesChecked
  /\ disk0 = disk
  /\ clock = 1
  /\ call = None
  /\ out = None
  /\ task = None
  /\ order = <<>>
  /\ wrote = <<>>

\* runConflictChecks is called and runs up to its await: the four checks
\* are called one after the other, each running up to its own first await.
CallRunConflictChecks ==
  /\ pc = "checks"
  /\ \E force \in BOOLEAN :
       call' = [fn |-> "runConflictChecks", flag |-> force, at |-> clock]
  /\ pc' = "await"
  /\ task' = started
  /\ order' = <<>>
  /\ disk0' = disk
  /\ UNCHANGED <<stringVars, scanVars, mergeVars, disk, clock, out, wrote>>

ReaddirCommands ==
  /\ pc = "await"
  /\ task.duplicateCommands.pc = "readdir"
  /\ task' = [task EXCEPT !.duplicateCommands = readdirCommands(disk, @)]
  /\ order' = completed(order, "duplicateCommands", task'.duplicateCommands)
  /\ UNCHANGED <<stringVars, scanVars, mergeVars, fileVars, pc>>

StatSubdir ==
  /\ pc = "await"
  /\ task.duplicateCommands.pc = "stat"
  /\ task' = [task EXCEPT !.duplicateCommands = statSubdir(disk, @)]
  /\ order' = completed(order, "duplicateCommands", task'.duplicateCommands)
  /\ UNCHANGED <<stringVars, scanVars, mergeVars, fileVars, pc>>

ReaddirSubdir ==
  /\ pc = "await"
  /\ task.duplicateCommands.pc = "readdirSubdir"
  /\ task' = [task EXCEPT !.duplicateCommands = readdirSubdir(disk, @)]
  /\ order' = completed(order, "duplicateCommands", task'.duplicateCommands)
  /\ UNCHANGED <<stringVars, scanVars, mergeVars, fileVars, pc>>

AccessSettings ==
  /\ pc = "await"
  /\ task.settingsConflicts.pc = "access"
  /\ task' = [task EXCEPT !.settingsConflicts = accessSettings(disk, @)]
  /\ order' = completed(order, "settingsConflicts", task'.settingsConflicts)
  /\ UNCHANGED <<stringVars, scanVars, mergeVars, fileVars, pc>>

AccessLocal ==
  /\ pc = "await"
  /\ task.settingsConflicts.pc = "accessLocal"
  /\ task' = [task EXCEPT !.settingsConflicts = accessLocal(disk, @)]
  /\ order' = completed(order, "settingsConflicts", task'.settingsConflicts)
  /\ UNCHANGED <<stringVars, scanVars, mergeVars, fileVars, pc>>

ReadFileSettings ==
  /\ pc = "await"
  /\ task.settingsConflicts.pc = "readFile"
  /\ task' = [task EXCEPT !.settingsConflicts = readFileSettings(disk, @)]
  /\ order' = completed(order, "settingsConflicts", task'.settingsConflicts)
  /\ UNCHANGED <<stringVars, scanVars, mergeVars, fileVars, pc>>

ReadFileLocal ==
  /\ pc = "await"
  /\ task.settingsConflicts.pc = "readFileLocal"
  /\ task' = [task EXCEPT !.settingsConflicts = readFileLocal(disk, @)]
  /\ order' = completed(order, "settingsConflicts", task'.settingsConflicts)
  /\ UNCHANGED <<stringVars, scanVars, mergeVars, fileVars, pc>>

\* fs.readFile of detectMcpConflicts has completed; the rest of the check
\* awaits nothing (conflicts.js 172-199).
ReadFileMcp ==
  /\ pc = "await"
  /\ task.mcpConflicts.pc = "readFile"
  /\ task' = [task EXCEPT
                !.mcpConflicts = resolved(@, detectMcpConflicts(disk))]
  /\ order' = Append(order, "mcpConflicts")
  /\ UNCHANGED <<stringVars, scanVars, mergeVars, fileVars, pc>>

\* fs.readFile of detectExistingInstallation has completed; the rest of
\* the check awaits nothing (conflicts.js 147-161).
ReadFileExisting ==
  /\ pc = "await"
  /\ task.existing.pc = "readFile"
  /\ task' = [task EXCEPT
                !.existing = resolved(@, detectExistingInstallation(disk))]
  /\ order' = Append(order, "existing")
  /\ UNCHANGED <<stringVars, scanVars, mergeVars, fileVars, pc>>

\* Promise.all has settled and runConflictChecks runs to its end
\* (conflicts.js 208-229); a check that threw would make it throw.
ReturnReport ==
  /\ pc = "await"
  /\ \A k \in 1..4 : Settled(task[Checks[k]])
  /\ pc' = "done"
  /\ out' = IF \E k \in 1..4 : task[Checks[k]].pc = "rejected"
              THEN [threw |-> TRUE, val |-> None]
              ELSE LET values == settled(task, order)
                   IN  [threw |-> FALSE,
                        val |-> report(values[1], values[2], values[3],
                                       values[4], [force |-> call.flag])]
  /\ UNCHANGED <<stringVars, scanVars, mergeVars, disk, disk0, clock, call,
                 taskVars, wrote>>

NextChecks ==
  \/ CallRunConflictChecks
  \/ ReaddirCommands
  \/ StatSubdir
  \/ ReaddirSubdir
  \/ AccessSettings
  \/ AccessLocal
  \/ ReadFileSettings
  \/ ReadFileLocal
  \/ ReadFileMcp
  \/ ReadFileExisting
  \/ ReturnReport

SpecChecks == InitChecks /\ [][NextChecks]_vars

-----------------------------------------------------------------------------
(* Properties of runConflictChecks *)

Returned == pc = "done" /\ call # None /\ call.fn = "runConflictChecks"

\* The records of the first three checks on directory d, in their order.
FirstThree(d) ==
  detectDuplicateCommands(d) \o detectSettingsConflicts(d)
    \o detectMcpConflicts(d)

\* C18: the report of runConflictChecks holds the records of
\* detectDuplicateCommands, then those of detectSettingsConflicts, then
\* those of detectMcpConflicts, and after them one existing_installation
\* record, the last, exactly when settings.json has the marker key and
\* force is false; hasConflicts says whether there is a record, and
\* existing.installed says whether there is a marker, whatever force is.
C18_Report ==
  Returned =>
    LET n == Len(FirstThree(disk))
        records == out.val.conflicts
        appended == MarkerPresent(disk) /\ ~call.flag
    IN  /\ ~out.threw
        /\ Len(records) = n + (IF appended THEN 1 ELSE 0)
        /\ SubSeq(records, 1, n) = FirstThree(disk)
        /\ appended => records[n + 1].type = "existing_installation"
        /\ \A k \in 1..n : records[k].type # "existing_installation"
        /\ out.val.hasConflicts <=> records # <<>>
        /\ out.val.existing.installed <=> MarkerPresent(disk)

IsPrefix(s, t) == Len(s) <= Len(t) /\ SubSeq(t, 1, Len(s)) = s

\* C19: the four checks write nothing and each pushes to an array of its
\* own, so whatever the order in which their steps are taken and in which
\* they complete, the directory stays as it was when runConflictChecks
\* was called, each array grows along the records its check returns for
\* that directory, and the report is the one the directory and force
\* determine.
C19_SameReport ==
  /\ (call # None /\ call.fn = "runConflictChecks") =>
       /\ disk = disk0
       /\ IsPrefix(task.duplicateCommands.conflicts,
                   detectDuplicateCommands(disk0))
       /\ IsPrefix(task.settingsConflicts.conflicts,
                   detectSettingsConflicts(disk0))
  /\ Returned =>
       /\ ~out.threw
       /\ out.val = runConflictChecks(disk0, [force |-> call.flag])

\* The checks completed in the reverse of the order they were started in,
\* each of the first three with a record of its own.
C19_Witness ==
  /\ Returned
  /\ order = <<"existing", "mcpConflicts", "settingsConflicts",
               "duplicateCommands">>
  /\ task.duplicateCommands.val # <<>>
  /\ task.settingsConflicts.val # <<>>
  /\ task.mcpConflicts.val # <<>>
  /\ Len(out.val.conflicts) =
       Len(task.duplicateCommands.val) + Len(task.settingsConflicts.val)
         + Len(task.mcpConflicts.val) + 1
  /\ out.val.conflicts[1].type = "similar_commands"
  /\ out.val.conflicts[Len(out.val.conflicts)].type = "existing_installation"

AllAbsent(d) ==
  ~d.commands.exists /\ d.settings.kind = "absent" /\ d.local.kind = "absent"

\* C20: an absent input is never an error.  No check throws; with no
\* commands directory detectDuplicateCommands returns no record, with
\* settings.json or settings.local.json absent detectSettingsConflicts
\* returns none and reads neither, with settings.json absent
\* detectMcpConflicts returns none
\* and detectExistingInstallation reports no installation; and
\* runConflictChecks never throws and, when all three are absent and force
\* is false, returns hasConflicts false, no conflicts, installed false.
C20_AbsentInputs ==
  /\ (call # None /\ call.fn = "runConflictChecks") =>
       /\ \A k \in 1..4 : task[Checks[k]].pc # "rejected"
       /\ (task.duplicateCommands.pc = "resolved" /\ ~disk.commands.exists)
            => task.duplicateCommands.val = <<>>
       /\ (task.settingsConflicts.pc = "resolved"
             /\ (disk.settings.kind = "absent" \/ disk.local.kind = "absent"))
            => task.settingsConflicts.val = <<>>
       /\ task.settingsConflicts.pc \in {"readFile", "readFileLocal"}
            => disk.settings.kind # "absent" /\ disk.local.kind # "absent"
       /\ (task.mcpConflicts.pc = "resolved" /\ disk.settings.kind = "absent")
            => task.mcpConflicts.val = <<>>
       /\ (task.existing.pc = "resolved" /\ disk.settings.kind = "absent")
            => task.existing.val = [installed |-> FALSE]
  /\ Returned =>
       /\ ~out.threw
       /\ (AllAbsent(disk) /\ ~call.flag) =>
            out.val = [hasConflicts |-> FALSE, conflicts |-> <<>>,
                       existing |-> [installed |-> FALSE]]

\* runConflictChecks without force has returned on a directory that has
\* none of the three.
C20_Witness ==
  /\ Returned
  /\ ~call.flag
  /\ AllAbsent(disk)
  /\ ~out.threw
  /\ ~out.val.hasConflicts
  /\ task.duplicateCommands.pc = "resolved"
  /\ task.settingsConflicts.pc = "resolved"

-----------------------------------------------------------------------------
(* fs: the calls of installer.js and the plugins on the project directory *)

\* A path of the project: one of its places, a directory there (or "") and
\* a file name (or none, for the directory itself).
Dir(root, name) == [root |-> root, dir |-> name, file |-> <<>>]
File(root, name, file) == [root |-> root, dir |-> name, file |-> file]

\* What a call of fs leaves: the directory afterwards, and whether the
\* promise was rejected (ENOENT, EEXIST, ENOTDIR, ENOTEMPTY).
fulfilled(d) == [threw |-> FALSE, disk |-> d]
rejected(d) == [threw |-> TRUE, disk |-> d]

\* The position in commands/ of the entry with this name, or 0.
commandAt(d, name) ==
  LET at == {k \in DOMAIN d.commands.entries :
               d.commands.entries[k].name = name}
  IN  IF at = {} THEN 0 ELSE CHOOSE k \in at : TRUE

\* fs.mkdir(dir, { recursive: true }): the directory and its parents are
\* made when they are missing; an entry of that name that is no directory
\* is an error.  A new entry is listed after the others.
mkdir(d, p) ==
  CASE p.root = "claude" -> fulfilled([d EXCEPT !.claudeDir = TRUE])
    [] p.root = "helpers" ->
         fulfilled([d EXCEPT !.claudeDir = TRUE, !.helpers.exists = TRUE])
    [] p.root = "docs" -> fulfilled([d EXCEPT !.docs.dirs = @ \cup {p.dir}])
    [] p.root = "commands" ->
         IF commandAt(d, p.dir) = 0
           THEN fulfilled([d EXCEPT
                             !.claudeDir = TRUE,
                             !.commands =
                               Commands(Append(@.entries,
                                               Entry(p.dir, "dir", <<>>)))])
           ELSE IF d.commands.entries[commandAt(d, p.dir)].kind = "dir"
                  THEN fulfilled(d)
                  ELSE rejected(d)

\* A listing with the file in it: a new file is listed after the others.
withFile(listing, file) ==
  IF \E k \in DOMAIN listing : listing[k] = file THEN listing
  ELSE Append(listing, file)

\* fs.writeFile(path, content): the file is created or written over; its
\* directory has to exist.
writeFile(d, p) ==
  CASE p.root = "project" -> fulfilled([d EXCEPT !.shortcuts = TRUE])
    [] p.root = "helpers" ->
         IF d.helpers.exists
           THEN fulfilled([d EXCEPT !.helpers.files = withFile(@, p.file)])
           ELSE rejected(d)
    [] p.root = "docs" ->
         IF p.dir \in d.docs.dirs
           THEN fulfilled([d EXCEPT !.docs.gitkeep = @ \cup {p.dir}])
           ELSE rejected(d)
    [] p.root = "commands" ->
         LET k == commandAt(d, p.dir)
         IN  IF k # 0 /\ d.commands.entries[k].kind = "dir"
               THEN fulfilled([d EXCEPT !.commands.entries[k].files =
                                          withFile(@, p.file)])
               ELSE rejected(d)

\* The entries of a sequence that are not at position k.
without(seq, k) ==
  [n \in 1..(Len(seq) - 1) |-> IF n < k THEN seq[n] ELSE seq[n + 1]]

\* fs.rm(dir, { recursive: true }) without force: what is there goes, be it
\* a directory with its files, a file or a link; nothing there is an error.
rm(d, p) ==
  CASE p.root = "helpers" ->
         IF d.helpers.exists THEN fulfilled([d EXCEPT !.helpers = NoHelpers])
         ELSE rejected(d)
    [] p.root = "commands" ->
         IF commandAt(d, p.dir) # 0
           THEN fulfilled([d EXCEPT !.commands.entries =
                                      without(@, commandAt(d, p.dir))])
           ELSE rejected(d)

\* fs.rmdir(dir): only an empty directory goes.
rmdir(d, p) ==
  IF p.dir = ""
    THEN IF d.commands.exists /\ d.commands.entries = <<>>
           THEN fulfilled([d EXCEPT !.commands = NoCommands])
           ELSE rejected(d)
    ELSE LET k == commandAt(d, p.dir)
         IN  IF k # 0 /\ d.commands.entries[k].kind = "dir"
                  /\ d.commands.entries[k].files = <<>>
               THEN fulfilled([d EXCEPT !.commands.entries = without(@, k)])
               ELSE rejected(d)

\* fs.unlink(path) of WORKFLOW-SHORTCUTS.md
unlink(d, p) ==
  IF d.shortcuts THEN fulfilled([d EXCEPT !.shortcuts = FALSE]) ELSE rejected(d)

\* fs.readdir(commandsDir) of a plugin: the listing, or none when the
\* entry is missing or is no directory.
readdir(d, p) ==
  LET k == commandAt(d, p.dir)
  IN  IF k # 0 /\ d.commands.entries[k].kind = "dir"
        THEN [threw |-> FALSE, files |-> d.commands.entries[k].files]
        ELSE [threw |-> TRUE, files |-> <<>>]

-----------------------------------------------------------------------------
(* The plugins: claude-flow.js, compound-engineering.js, frontend-design.js *)

\* Object.keys(getCommands()) of each plugin, in the order of the literal.
claudeFlowCommands ==
  <<<<"s", "w", "a", "r", "m", "-", "i", "n", "i", "t">>,
    <<"a", "g", "e", "n", "t", "-", "s", "p", "a", "w", "n">>,
    <<"m", "e", "m", "o", "r", "y", "-", "o", "p", "s">>>>
compoundEngineeringCommands ==
  <<<<"p", "l", "a", "n">>,
    <<"w", "o", "r", "k">>,
    <<"r", "e", "v", "i", "e", "w">>,
    <<"c", "o", "m", "p", "o", "u", "n", "d">>>>
frontendDesignCommands ==
  <<<<"d", "e", "s", "i", "g", "n">>,
    <<"c", "o", "m", "p", "o", "n", "e", "n", "t">>,
    <<"l", "a", "y", "o", "u", "t">>,
    <<"t", "h", "e", "m", "e">>>>

\* The three plugins in the order installPlugins installs them, each with
\* the subdirectory of commands/ that is its commandsDir.
Plugins == <<"claude-flow", "compound-engineering", "frontend-design">>

commandsDir(plugin) ==
  CASE plugin = "claude-flow" -> "coordination"
    [] plugin = "compound-engineering" -> "workflows"
    [] plugin = "frontend-design" -> "analysis"

getCommands(plugin) ==
  CASE plugin = "claude-flow" -> claudeFlowCommands
    [] plugin = "compound-engineering" -> compoundEngineeringCommands
    [] plugin = "frontend-design" -> frontendDesignCommands

\* The subdirectories of docs/solutions (compound-engineering.js 170-183)
subdirs ==
  <<"features", "bugs", "security", "performance", "architecture", "reviews",
    "incidents", "tdd", "implementations", "debugging", "full-tdd-swarm",
    "multi-repo">>

\* A call of fs that a function awaits.
Mkdir(p) == [call |-> "mkdir", path |-> p]
WriteFile(p) == [call |-> "writeFile", path |-> p]

\* The sequence made of the sequences f[1], ..., f[n] one after the other.
RECURSIVE Flatten(_, _)
Flatten(f, n) == IF n = 0 THEN <<>> ELSE Flatten(f, n - 1) \o f[n]

\* The calls of fs that install(claudeDir, options) of a plugin awaits, in
\* order: fs.mkdir of commandsDir, then, unless options.dryRun, one
\* fs.writeFile per command; compound-engineering goes on, unless
\* options.dryRun, with fs.mkdir and fs.writeFile of .gitkeep for each
\* subdirectory of docs/solutions.
pluginInstallDry(plugin, options) ==
  <<Mkdir(Dir("commands", commandsDir(plugin)))>>
pluginInstall(plugin, options) ==
  <<Mkdir(Dir("commands", commandsDir(plugin)))>>
    \o (IF options.dryRun THEN <<>>
        ELSE [n \in DOMAIN getCommands(plugin) |->
                WriteFile(File("commands", commandsDir(plugin),
                               getCommands(plugin)[n] \o mdSuffix))])
    \o (IF plugin # "compound-engineering" \/ options.dryRun THEN <<>>
        ELSE Flatten([n \in DOMAIN subdirs |->
                        <<Mkdir(Dir("docs", subdirs[n])),
                          WriteFile(File("docs", subdirs[n],
                                         <<".", "g", "i", "t", "k", "e", "e",
                                           "p">>))>>],
                     Len(subdirs)))

\* isInstalled(claudeDir) of a plugin: its commandsDir lists a file.
isInstalled(d, plugin) ==
  LET listing == readdir(d, Dir("commands", commandsDir(plugin)))
  IN  ~listing.threw /\ Len(listing.files) > 0

\* uninstall(claudeDir) of a plugin: fs.rm inside try with an empty catch.
pluginUninstallKeeps(d, plugin) == d
pluginUninstall(d, plugin) == rm(d, Dir("commands", commandsDir(plugin))).disk

-----------------------------------------------------------------------------
(* installer.js: DaniZeeSuiteInstaller *)

\* The calls of fs that createDirectoryStructure awaits (installer.js 74-84)
createDirectoryStructure ==
  <<Mkdir(Dir("claude", "")), Mkdir(Dir("commands", "workflows")),
    Mkdir(Dir("commands", "coordination")), Mkdir(Dir("commands", "analysis")),
    Mkdir(Dir("helpers", ""))>>

quickStartSh ==
  <<"q", "u", "i", "c", "k", "-", "s", "t", "a", "r", "t", ".", "s", "h">>
setupMcpSh ==
  <<"s", "e", "t", "u", "p", "-", "m", "c", "p", ".", "s", "h">>

\* The calls of fs that createHelperScripts awaits (installer.js 138-159)
createHelperScripts ==
  <<WriteFile(File("helpers", "", quickStartSh)),
    WriteFile(File("helpers", "", setupMcpSh))>>

workflowShortcutsMd ==
  <<"W", "O", "R", "K", "F", "L", "O", "W", "-", "S", "H",
    "O", "R", "T", "C", "U", "T", "S", ".", "m", "d">>

\* utils/shortcuts.js: writeWorkflowShortcuts(targetDir) writes
\* WORKFLOW-SHORTCUTS.md into the project directory, where install()
\* reports it and uninstall() unlinks it, and shortcutsExist(targetDir)
\* says whether it is there.
writeWorkflowShortcuts == <<WriteFile(File("project", "", workflowShortcutsMd))>>
shortcutsExist(d) == d.shortcuts

settingsJson ==
  <<"s", "e", "t", "t", "i", "n", "g", "s", ".", "j", "s", "o", "n">>

\* The call an awaited function is making applied to the directory.
await(op, d) ==
  IF op.call = "mkdir" THEN mkdir(d, op.path) ELSE writeFile(d, op.path)

\* The paths created or written so far, with the one of this call when it
\* was fulfilled and made or wrote something.
logged(log, op, d, r) ==
  IF r.threw \/ (op.call = "mkdir" /\ r.disk = d) THEN log
  ELSE Append(log, op.path)

\* dryRunReport() (installer.js 257-276)
dryRunReport ==
  [dryRun |-> TRUE,
   wouldCreate |-> <<"/", "/commands/workflows/", "/commands/coordination/",
                     "/commands/analysis/", "/helpers/", "/settings.json",
                     "/WORKFLOW-SHORTCUTS.md", "/docs/solutions/">>,
   plugins |-> Plugins]

\* throw new Error(`Installation conflicts detected:\n${errors}`)
conflictsDetected(conflictCheck) ==
  [error |-> "Installation conflicts detected",
   errors |-> [n \in DOMAIN conflictCheck.conflicts |->
                 conflictCheck.conflicts[n].message]]

\* What install() does once runConflictChecks has returned (installer.js
\* 36-46): it throws, returns the dry-run report, or goes on to write.
afterChecksForced(conflictCheck, force, dryRun) ==
  IF dryRun THEN "dryRun" ELSE "write"
afterChecksWet(conflictCheck, force, dryRun) ==
  IF conflictCheck.hasConflicts /\ ~force THEN "throw" ELSE "write"
afterChecks(conflictCheck, force, dryRun) ==
  IF conflictCheck.hasConflicts /\ ~force THEN "throw"
  ELSE IF dryRun THEN "dryRun"
  ELSE "write"

\* check() (installer.js 165-207)
check(d) ==
  LET settings == truthy(field(readSettings(d), "danizee-suite"))
      shortcuts == shortcutsExist(d)
      claudeFlow == isInstalled(d, "claude-flow")
      compoundEngineering == isInstalled(d, "compound-engineering")
      frontendDesign == isInstalled(d, "frontend-design")
  IN  IF ~d.claudeDir
        THEN [installed |-> FALSE, claudeDir |-> FALSE, settings |-> FALSE,
              shortcuts |-> FALSE,
              plugins |-> [claudeFlow |-> FALSE, compoundEngineering |-> FALSE,
                           frontendDesign |-> FALSE]]
        ELSE [installed |-> settings /\ shortcuts /\ claudeFlow
                              /\ compoundEngineering /\ frontendDesign,
              claudeDir |-> TRUE, settings |-> settings,
              shortcuts |-> shortcuts,
              plugins |-> [claudeFlow |-> claudeFlow,
                           compoundEngineering |-> compoundEngineering,
                           frontendDesign |-> frontendDesign]]

\* uninstall(), its parts in order; each call of fs but the one inside
\* removeSettings stands in a try with an empty catch, so what it leaves
\* is taken whether it was fulfilled or rejected.
removePlugins(d) ==
  pluginUninstall(pluginUninstall(pluginUninstall(d, "claude-flow"),
                                  "compound-engineering"),
                  "frontend-design")

\* installer.js 221-249
removeFiles(d) == rm(unlink(d, File("project", "", workflowShortcutsMd)).disk,
                     Dir("helpers", "")).disk
removeCommandDirs(d) ==
  rmdir(rmdir(rmdir(rmdir(d, Dir("commands", "workflows")).disk,
                    Dir("commands", "coordination")).disk,
              Dir("commands", "analysis")).disk,
        Dir("commands", "")).disk

\* Returns the directory afterwards, whether the call threw and the value
\* returned (installer.js 212-252).
afterRemoveSettings(r) ==
  IF r.threw THEN [threw |-> TRUE, disk |-> r.disk, val |-> None]
  ELSE [threw |-> FALSE, disk |-> removeCommandDirs(removeFiles(r.disk)),
        val |-> [success |-> TRUE]]
uninstall(d, keepSettings) ==
  afterRemoveSettings(removeSettings(removePlugins(d), keepSettings))

-----------------------------------------------------------------------------
(* The installer at work: install() step by step, check(), uninstall() *)

\* Most calls of the installer in a behaviour.
MaxCalls == 2

\* The calls of fs that installPlugins awaits (installer.js 94-109)
installPluginsFirstOnly(options) == pluginInstall(Plugins[1], options)
installPlugins(options) ==
  Flatten([n \in DOMAIN Plugins |-> pluginInstall(Plugins[n], options)],
          Len(Plugins))

\* The project directories the installer is run in: a fresh one, and ones
\* with a .claude directory holding settings of the user or of an earlier
\* install, local settings, and commands of the user.
SettingsOfTargets ==
  {NoFile, Garbage,
   JsonFile(Tree(("theme" :> Str(<<"d", "a", "r", "k">>))
                 @@ ("plugins" :> Tree("mine" :> Bool(TRUE))))),
   JsonFile(Tree("danizee-suite" :> Null)),
   JsonFile(Tree(("danizee-suite" :>
                    Tree("version" :> Str(<<"0", ".", "9">>)
                         @@ "installedAt" :> toISOString(0)))
                 @@ ("mcpServers" :> Tree("a" :> Server(npx, <<argX>>)
                                          @@ "b" :> Server(npx, <<argX>>)))))}
CommandsOfTargets ==
  {NoCommands,
   Commands(<<Entry("workflows", "dir", <<planMd, plannMd>>)>>),
   Commands(<<Entry("README.md", "file", <<>>),
              Entry("analysis", "dir", <<>>)>>),
   Commands(<<Entry("coordination", "dangling", <<>>)>>)}
Targets ==
  {NoDirectory, [NoDirectory EXCEPT !.shortcuts = TRUE]}
    \cup {[NoDirectory EXCEPT !.claudeDir = TRUE, !.settings = s, !.local = l,
                              !.commands = cm] :
            s \in SettingsOfTargets, l \in LocalCore, cm \in CommandsOfTargets}

InitInstall ==
  /\ a = <<>>
  /\ b = <<>>
  /\ c = <<>>
  /\ threshold = DefaultThreshold
  /\ dist = None
  /\ sim = None
  /\ ScanIdle
  /\ MergeIdle
  /\ pc = "ready"
  /\ disk \in Targets
  /\ disk0 = disk
  /\ clock = MaxClock - 1
  /\ call = None
  /\ out = None
  /\ task = None
  /\ order = <<>>
  /\ wrote = <<>>

\* How many calls were made, and the one before the call being made with
\* the directory it found.
Calls == IF call = None THEN 0 ELSE call.nth
Before ==
  IF call = None THEN None
  ELSE [fn |-> call.fn, flag |-> call.flag, dryRun |-> call.dryRun,
        threw |-> out.threw, found |-> disk0]

\* A call that an error of the disk ended (EIO, ENOSPC) is followed by no
\* install().
Failed == out # None /\ out.threw /\ out.val.error = "EIO"

\* new DaniZeeSuiteInstaller({force, dryRun}).install() is called and runs
\* up to its first await.
CallInstall ==
  /\ pc = "ready"
  /\ Calls < MaxCalls
  /\ ~Failed
  /\ \E force \in BOOLEAN, dryRun \in BOOLEAN :
       call' = [fn |-> "install", flag |-> force, dryRun |-> dryRun,
                at |-> clock, nth |-> Calls + 1, before |-> Before]
  /\ pc' = "install"
  /\ task' = [at |-> "runConflictChecks", n |-> 1]
  /\ disk0' = disk
  /\ wrote' = <<>>
  /\ out' = None
  /\ UNCHANGED <<stringVars, scanVars, mergeVars, disk, clock, order>>

\* runConflictChecks has returned (installer.js 32-46).
InstallChecked ==
  /\ pc = "install"
  /\ task.at = "runConflictChecks"
  /\ LET conflictCheck == runConflictChecks(disk, [force |-> call.flag])
         branch == afterChecks(conflictCheck, call.flag, call.dryRun)
     IN  /\ pc' = IF branch = "write" THEN "install" ELSE "ready"
         /\ task' = IF branch = "write"
                      THEN [at |-> "createDirectoryStructure", n |-> 1]
                      ELSE None
         /\ out' = CASE branch = "throw" ->
                          [threw |-> TRUE, val |-> conflictsDetected(conflictCheck)]
                     [] branch = "dryRun" -> [threw |-> FALSE, val |-> dryRunReport]
                     [] OTHER -> out
  /\ UNCHANGED <<stringVars, scanVars, mergeVars, disk, disk0, clock, call,
                 order, wrote>>

\* An awaited call of fs was rejected and install() throws what it threw.
thrown(error) == [threw |-> TRUE, val |-> [error |-> error]]

\* The position after the n-th call of a function that awaits these calls,
\* when the install goes on at nextAt after the function.
advance(t, ops, nextAt) ==
  IF t.n < Len(ops) THEN [t EXCEPT !.n = @ + 1] ELSE [at |-> nextAt, n |-> 1]

\* One fs.mkdir of createDirectoryStructure has settled (installer.js 83).
CreateDirectoryStructure ==
  /\ pc = "install"
  /\ task.at = "createDirectoryStructure"
  /\ LET op == createDirectoryStructure[task.n]
         r == await(op, disk)
     IN  /\ disk' = r.disk
         /\ wrote' = logged(wrote, op, disk, r)
         /\ pc' = IF r.threw THEN "ready" ELSE "install"
         /\ out' = IF r.threw THEN thrown("fs") ELSE out
         /\ task' = IF r.threw THEN None
                    ELSE advance(task, createDirectoryStructure,
                                 "installPlugins")
  /\ UNCHANGED <<stringVars, scanVars, mergeVars, disk0, clock, call, order>>

\* One fs.mkdir or fs.writeFile of a plugin's install has settled.
InstallPlugins ==
  /\ pc = "install"
  /\ task.at = "installPlugins"
  /\ LET ops == installPlugins([dryRun |-> call.dryRun])
         op == ops[task.n]
         r == await(op, disk)
     IN  /\ disk' = r.disk
         /\ wrote' = logged(wrote, op, disk, r)
         /\ pc' = IF r.threw THEN "ready" ELSE "install"
         /\ out' = IF r.threw THEN thrown("fs") ELSE out
         /\ task' = IF r.threw THEN None
                    ELSE advance(task, ops, "mergeSettings")
  /\ UNCHANGED <<stringVars, scanVars, mergeVars, disk0, clock, call, order>>

\* mergeSettings has settled (installer.js 52-55).
InstallMergeSettings ==
  /\ pc = "install"
  /\ task.at = "mergeSettings"
  /\ \E t0 \in clock..MaxClock :
       \E t1 \in t0..MaxClock :
         \E t2 \in t1..MaxClock :
           /\ call.flag \/ (t1 = t0 /\ t2 = t0)
           /\ LET r == mergeSettings(disk, [force |-> call.flag], t0, t1, t2)
              IN  /\ disk' = r.disk
                  /\ wrote' = IF r.threw THEN wrote
                              ELSE Append(wrote, File("claude", "", settingsJson))
                  /\ pc' = IF r.threw THEN "ready" ELSE "install"
                  /\ out' = IF r.threw THEN thrown("fs") ELSE out
                  /\ task' = IF r.threw THEN None
                             ELSE [at |-> "writeWorkflowShortcuts", n |-> 1]
           /\ clock' = t2
  /\ UNCHANGED <<stringVars, scanVars, mergeVars, disk0, call, order>>

\* writeWorkflowShortcuts has settled (installer.js 58).
WriteWorkflowShortcuts ==
  /\ pc = "install"
  /\ task.at = "writeWorkflowShortcuts"
  /\ LET op == writeWorkflowShortcuts[task.n]
         r == await(op, disk)
     IN  /\ disk' = r.disk
         /\ wrote' = logged(wrote, op, disk, r)
         /\ pc' = IF r.threw THEN "ready" ELSE "install"
         /\ out' = IF r.threw THEN thrown("fs") ELSE out
         /\ task' = IF r.threw THEN None
                    ELSE advance(task, writeWorkflowShortcuts,
                                 "createHelperScripts")
  /\ UNCHANGED <<stringVars, scanVars, mergeVars, disk0, clock, call, order>>

\* One fs.writeFile of createHelperScripts has settled; after the second
\* install() returns (installer.js 61-67).
CreateHelperScripts ==
  /\ pc = "install"
  /\ task.at = "createHelperScripts"
  /\ LET op == createHelperScripts[task.n]
         r == await(op, disk)
         last == task.n = Len(createHelperScripts)
     IN  /\ disk' = r.disk
         /\ wrote' = logged(wrote, op, disk, r)
         /\ pc' = IF r.threw \/ last THEN "ready" ELSE "install"
         /\ out' = IF r.threw THEN thrown("fs")
                   ELSE IF last
                     THEN [threw |-> FALSE,
                           val |-> [success |-> TRUE, plugins |-> Plugins,
                                    shortcuts |-> workflowShortcutsMd]]
                     ELSE out
         /\ task' = IF r.threw \/ last THEN None
                    ELSE advance(task, createHelperScripts, "return")
  /\ UNCHANGED <<stringVars, scanVars, mergeVars, disk0, clock, call, order>>

\* The disk fails under a call of fs that install() awaits once it writes
\* (EIO, ENOSPC): install() throws and what it had written stays.
FsRejects ==
  /\ pc = "install"
  /\ task.at # "runConflictChecks"
  /\ pc' = "ready"
  /\ out' = thrown("EIO")
  /\ task' = None
  /\ UNCHANGED <<stringVars, scanVars, mergeVars, disk, disk0, clock, call,
                 order, wrote>>

\* check() is called and returns.
Check ==
  /\ pc = "ready"
  /\ Calls < MaxCalls
  /\ call' = [fn |-> "check", flag |-> FALSE, dryRun |-> FALSE, at |-> clock,
              nth |-> Calls + 1, before |-> Before]
  /\ out' = [threw |-> FALSE, val |-> check(disk)]
  /\ disk0' = disk
  /\ wrote' = <<>>
  /\ UNCHANGED <<stringVars, scanVars, mergeVars, disk, clock, pc, taskVars>>

\* new DaniZeeSuiteInstaller({keepSettings}).uninstall() is called and
\* returns or throws.
Uninstall ==
  /\ pc = "ready"
  /\ Calls < MaxCalls
  /\ \E keepSettings \in BOOLEAN :
       /\ call' = [fn |-> "uninstall", flag |-> keepSettings,
                   dryRun |-> FALSE, at |-> clock, nth |-> Calls + 1,
                   before |-> Before]
       /\ LET r == uninstall(disk, keepSettings)
          IN  /\ disk' = r.disk
              /\ out' = IF r.threw THEN thrown("fs")
                        ELSE [threw |-> FALSE, val |-> r.val]
  /\ disk0' = disk
  /\ wrote' = <<>>
  /\ UNCHANGED <<stringVars, scanVars, mergeVars, clock, pc, taskVars>>

\* runConflictChecks(claudeDir, {force}) is called and returns.
ConflictChecks ==
  /\ pc = "ready"
  /\ Calls < MaxCalls
  /\ \E force \in BOOLEAN :
       /\ call' = [fn |-> "runConflictChecks", flag |-> force,
                   dryRun |-> FALSE, at |-> clock, nth |-> Calls + 1,
                   before |-> Before]
       /\ out' = [threw |-> FALSE,
                  val |-> runConflictChecks(disk, [force |-> force])]
  /\ disk0' = disk
  /\ wrote' = <<>>
  /\ UNCHANGED <<stringVars, scanVars, mergeVars, disk, clock, pc, taskVars>>

NextInstall ==
  \/ CallInstall
  \/ InstallChecked
  \/ CreateDirectoryStructure
  \/ InstallPlugins
  \/ InstallMergeSettings
  \/ WriteWorkflowShortcuts
  \/ CreateHelperScripts
  \/ FsRejects
  \/ Check
  \/ Uninstall
  \/ ConflictChecks

SpecInstall == InitInstall /\ [][NextInstall]_vars

-----------------------------------------------------------------------------
(* Properties of the installer *)

\* The call of this function has ended, by returning or by throwing.
Ended(fn) == pc = "ready" /\ call # None /\ call.fn = fn

Refused ==
  out.threw /\ out.val.error = "Installation conflicts detected"

\* C21: install() throws 'Installation conflicts detected' exactly when
\* runConflictChecks, on the directory as install() found it, reports
\* hasConflicts and force is false, and then it has created and written
\* nothing; with force and without dryRun it is never refused, whatever the
\* conflicts: it goes on to write, and returns success unless a call of fs
\* fails.  It is past its checks only when it was not to be refused.
C21_RefusedOnConflicts ==
  /\ Ended("install") =>
       LET conflictCheck == runConflictChecks(disk0, [force |-> call.flag])
       IN  /\ Refused <=> (conflictCheck.hasConflicts /\ ~call.flag)
           /\ Refused => (disk = disk0 /\ wrote = <<>>)
           /\ (call.flag /\ ~call.dryRun /\ ~out.threw) =>
                (out.val.success /\ wrote # <<>>)
  /\ (call # None /\ call.fn = "install" /\ call.flag /\ ~call.dryRun) =>
       pc = "install" \/ ~Refused
  /\ (call # None /\ call.fn = "install" /\ pc = "install"
        /\ task.at # "runConflictChecks") =>
       /\ ~call.dryRun
       /\ call.flag
            \/ ~runConflictChecks(disk0, [force |-> FALSE]).hasConflicts

\* install() without force was refused on a directory whose commands
\* conflict.
C21_Witness ==
  /\ Ended("install")
  /\ ~call.flag
  /\ Refused
  /\ \E n \in DOMAIN out.val.errors : TRUE
  /\ detectDuplicateCommands(disk) # <<>>
  /\ disk = disk0

\* C22: install() with dryRun leaves the directory as it found it in every
\* case: at no point of the call has it created, written or removed
\* anything, whether it is refused or returns the dry-run report.
C22_DryRunWritesNothing ==
  (call # None /\ call.fn = "install" /\ call.dryRun) =>
    /\ disk = disk0
    /\ wrote = <<>>
    /\ pc = "install" => task.at = "runConflictChecks"
    /\ pc = "ready" => (out.threw => Refused) /\ (~out.threw => out.val = dryRunReport)

\* A forced dry run has returned its report on a directory where an
\* install without dryRun would have had files to write over.
C22_Witness ==
  /\ Ended("install")
  /\ call.dryRun
  /\ call.flag
  /\ ~out.threw
  /\ out.val.dryRun
  /\ disk.claudeDir
  /\ runConflictChecks(disk, [force |-> FALSE]).hasConflicts

\* The call that has just returned followed one of this function; `before`
\* holds that call's function, flags and whether it threw.
After(fn) == call # None /\ call.before # None /\ call.before.fn = fn

AllTrue ==
  [installed |-> TRUE, claudeDir |-> TRUE, settings |-> TRUE,
   shortcuts |-> TRUE,
   plugins |-> [claudeFlow |-> TRUE, compoundEngineering |-> TRUE,
                frontendDesign |-> TRUE]]

\* C23: a check() that follows an install() without dryRun that returned,
\* on whatever directory, returns installed = true with claudeDir, settings,
\* shortcuts and the three plugin flags true; and so would a check() at the
\* moment install() returns.
C23_CheckAfterInstall ==
  /\ (Ended("check") /\ After("install") /\ ~call.before.dryRun
        /\ ~call.before.threw) =>
       out.val = AllTrue
  /\ (Ended("install") /\ ~call.dryRun /\ ~out.threw) =>
       check(disk) = AllTrue

\* check() has returned after a forced install over a directory that held
\* local settings and commands of the user.
C23_Witness ==
  /\ Ended("check")
  /\ After("install")
  /\ call.before.flag
  /\ ~call.before.dryRun
  /\ ~call.before.threw
  /\ out.val.installed
  /\ disk.local # NoFile
  /\ isInstalled(disk, "compound-engineering")
  /\ Len(readdir(disk, Dir("commands", "workflows")).files)
       > Len(compoundEngineeringCommands)

NoneInstalled ==
  [claudeFlow |-> FALSE, compoundEngineering |-> FALSE,
   frontendDesign |-> FALSE]

\* C24: once uninstall() has returned, with either keepSettings,
\* detectExistingInstallation reports installed = false and check() reports
\* installed = false with the three plugin flags false, when called next as
\* well as on the directory uninstall() left; so runConflictChecks without
\* force reports no existing installation and an install() without force
\* that follows is not refused for one.
C24_GoneAfterUninstall ==
  /\ (call # None /\ call.fn = "uninstall" /\ ~out.threw) =>
       /\ ~detectExistingInstallation(disk).installed
       /\ ~check(disk).installed
       /\ check(disk).plugins = NoneInstalled
       /\ OfType(runConflictChecks(disk, [force |-> FALSE]).conflicts,
                 "existing_installation") = {}
  /\ (Ended("check") /\ After("uninstall") /\ ~call.before.threw) =>
       ~out.val.installed /\ out.val.plugins = NoneInstalled
  /\ (Ended("runConflictChecks") /\ After("uninstall")
        /\ ~call.before.threw) =>
       ~out.val.existing.installed
  /\ (call # None /\ call.fn = "install" /\ After("uninstall")
        /\ ~call.before.threw /\ ~call.flag) =>
       LET conflictCheck == runConflictChecks(disk0, [force |-> FALSE])
       IN  /\ OfType(conflictCheck.conflicts, "existing_installation") = {}
           /\ (pc = "ready" /\ Refused) =>
                DOMAIN out.val.errors = DOMAIN conflictCheck.conflicts

\* uninstall() keeping the settings has returned on a directory that an
\* install had completed in: the installation was detected before and the
\* settings file is still there.
C24_Witness ==
  /\ Ended("uninstall")
  /\ After("install")
  /\ ~call.before.threw
  /\ ~call.before.dryRun
  /\ call.flag
  /\ ~out.threw
  /\ detectExistingInstallation(disk0).installed
  /\ check(disk0).installed
  /\ disk.settings # NoFile
  /\ ~check(disk).installed

\* C25: uninstall() returns {success: true} from every state of the
\* directory and with either keepSettings: it never throws.
C25_UninstallSucceeds ==
  Ended("uninstall") => (~out.threw /\ out.val = [success |-> TRUE])

\* A target with no .claude directory and no settings.local.json.
Fresh(d) == ~d.claudeDir /\ d.local = NoFile

\* C26: after an install() without dryRun has returned on a fresh target,
\* runConflictChecks without force reports exactly one conflict, of type
\* existing_installation, and with force it reports none: the files the
\* suite installs do not conflict among themselves.
C26_OwnFilesDoNotConflict ==
  /\ (Ended("install") /\ ~call.dryRun /\ ~out.threw /\ Fresh(disk0)) =>
       LET unforced == runConflictChecks(disk, [force |-> FALSE])
           forced == runConflictChecks(disk, [force |-> TRUE])
       IN  /\ Len(unforced.conflicts) = 1
           /\ unforced.conflicts[1].type = "existing_installation"
           /\ unforced.hasConflicts
           /\ forced.conflicts = <<>>
           /\ ~forced.hasConflicts
  /\ (Ended("runConflictChecks") /\ After("install") /\ ~call.before.dryRun
        /\ ~call.before.threw /\ Fresh(call.before.found)) =>
       IF call.flag
         THEN out.val.conflicts = <<>> /\ ~out.val.hasConflicts
         ELSE /\ Len(out.val.conflicts) = 1
              /\ out.val.conflicts[1].type = "existing_installation"
              /\ out.val.hasConflicts

\* runConflictChecks without force has returned after an install on a
\* fresh target, which the plugins' commands were written into.
C26_Witness ==
  /\ Ended("runConflictChecks")
  /\ ~call.flag
  /\ After("install")
  /\ ~call.before.dryRun
  /\ ~call.before.threw
  /\ Fresh(call.before.found)
  /\ Len(out.val.conflicts) = 1
  /\ out.val.existing.installed
  /\ \A n \in DOMAIN Plugins : isInstalled(disk, Plugins[n])
  /\ Len(disk.commands.entries) = Len(Plugins)

\* settings.json holds the installation marker key.
MarkerWritten(d) ==
  d.settings.kind = "json" /\ "danizee-suite" \in DOMAIN props(d.settings.tree)

\* C28: at every point of an install() on a fresh target, and after it
\* whether it returned or a failing call ended it part-way, a settings.json
\* holding the marker implies that the three command directories exist and
\* are not empty: the marker is written after the commands.
C28_MarkerAfterCommands ==
  (call # None /\ call.fn = "install" /\ Fresh(disk0) /\ MarkerWritten(disk)) =>
    /\ \A n \in DOMAIN Plugins :
         /\ commandAt(disk, commandsDir(Plugins[n])) # 0
         /\ isInstalled(disk, Plugins[n])
    /\ pc = "install" =>
         task.at \in {"writeWorkflowShortcuts", "createHelperScripts"}

\* An install on a fresh target failed after mergeSettings had written the
\* marker and before the helper scripts were there.
C28_Witness ==
  /\ Ended("install")
  /\ Fresh(disk0)
  /\ out.threw
  /\ MarkerWritten(disk)
  /\ ~disk.helpers.exists \/ disk.helpers.files = <<>>
  /\ isInstalled(disk, "frontend-design")

-----------------------------------------------------------------------------
(* deepMerge applied to its own result *)

\* deepMerge(ret, overlay) is called with what the first call returned and
\* returns.
CallDeepMergeAgain ==
  /\ pc = "done"
  /\ LET r == deepMerge(heap, ret, overlay)
     IN  /\ heap' = r.heap
         /\ again' = r.val
  /\ heap0' = heap
  /\ pc' = "again"
  /\ UNCHANGED <<stringVars, scanVars, base, overlay, ret, fileVars, taskVars>>

NextMergeAgain ==
  \/ CallDeepMerge
  \/ CallDeepMergeAgain

SpecMergeAgain == InitMerge /\ [][NextMergeAgain]_vars

\* C27: deepMerge is idempotent in its overlay: deepMerge(deepMerge(base,
\* overlay), overlay) is deep-equal to deepMerge(base, overlay), the first
\* result being what it was when it was returned.
C27_Idempotent ==
  pc = "again" =>
    /\ deepVal(heap, again) = deepVal(heap0, ret)
    /\ deepVal(heap, ret) = deepVal(heap0, ret)

\* The second merge has returned a new object for trees that share an array
\* key inside a nested tree.
C27_Witness ==
  /\ pc = "again"
  /\ again # ret
  /\ deepVal(heap, base) = Tree([a |-> Tree([a |-> Arr(<<Num(1)>>)])])
  /\ deepVal(heap, overlay) =
       Tree([a |-> Tree([a |-> Arr(<<Num(2)>>), b |-> Num(2)])])
  /\ deepVal(heap, again) =
       Tree([a |-> Tree([a |-> Arr(<<Num(2)>>), b |-> Num(2)])])

-----------------------------------------------------------------------------
(* Short names at the default threshold *)

\* C29: at the default threshold 0.3 two names of which the longer has at
\* most 3 characters are similar only when their edit distance is 0, that
\* is when they are equal ignoring case; two single-character names that
\* differ ignoring case are never similar.
C29_ShortNamesNeedEquality ==
  (sim # None /\ threshold = DefaultThreshold
     /\ Max(Len(a), Len(b)) <= 3) =>
    LET distance == levenshteinDistance(toLowerCase(a), toLowerCase(b))
    IN  /\ sim.ab => distance = 0
        /\ distance = 0 <=> toLowerCase(a) = toLowerCase(b)
        /\ sim.ab => toLowerCase(a) = toLowerCase(b)
        /\ (Len(a) = 1 /\ Len(b) = 1 /\ toLowerCase(a) # toLowerCase(b)) =>
             ~sim.ab /\ ~sim.ba

\* Two names of three characters that differ only by case were found
\* similar at the default threshold.
C29_Witness ==
  /\ sim # None
  /\ threshold = DefaultThreshold
  /\ Len(a) = 3
  /\ Len(b) = 3
  /\ a # b
  /\ toLowerCase(a) = toLowerCase(b)
  /\ sim.ab

-----------------------------------------------------------------------------
(* A tree of overlay over a value of base that is no tree *)

\* C30: where overlay[key] is a nested tree and base[key] exists and is no
\* tree (a string, a number, a boolean, null or an array), the merged value
\* at key is deep-equal to overlay[key]: nothing of the base value appears
\* in it.
C30_TreeReplacesNonTree ==
  pc = "done" =>
    LET B == deepVal(heap0, base)
        O == deepVal(heap0, overlay)
        R == deepVal(heap, ret)
    IN  \A key \in DOMAIN B.v \cap DOMAIN O.v :
          (O.v[key].t = "tree" /\ B.v[key].t # "tree") =>
            R.v[key] = O.v[key]

=============================================================================
